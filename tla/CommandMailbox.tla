--------------------------- MODULE CommandMailbox ---------------------------
(***************************************************************************)
(* What the bootloader's ARM7/ARM9 mailbox promises, with nothing of how   *)
(* it is done: one request is outstanding at a time, it is served exactly  *)
(* once, with the argument it was posted with, and acknowledged; after the *)
(* last request (boot the game) the mailbox is over.                       *)
(*                                                                         *)
(* BootHandshake implements this specification with the single word        *)
(* arm9_stateFlag that both CPUs poll and overwrite.                       *)
(***************************************************************************)
EXTENDS Sequences

CONSTANTS
  Requests,      (* what the ARM7 may ask of the ARM9                      *)
  LastRequests,  (* the requests after which the ARM9 serves no more       *)
  NoRequest      (* no request is outstanding                              *)

VARIABLES
  phase,     (* "closed", "idle", "posted", "served" or "over"             *)
  request,   (* the outstanding request, or NoRequest                      *)
  log        (* the requests served so far, in order                       *)

mailboxVars == <<phase, request, log>>

Init ==
  /\ phase = "closed"
  /\ request = NoRequest
  /\ log = << >>

(* The server announces that it takes requests.                            *)
Open ==
  /\ phase = "closed"
  /\ phase' = "idle"
  /\ UNCHANGED <<request, log>>

(* The client posts a request: only to an idle server.                     *)
Post ==
  /\ phase = "idle"
  /\ \E r \in Requests : request' = r
  /\ phase' = "posted"
  /\ UNCHANGED log

(* The server performs the outstanding request, once.                      *)
Serve ==
  /\ phase = "posted"
  /\ log' = Append(log, request)
  /\ phase' = "served"
  /\ UNCHANGED request

(* The server says that the request is done.                               *)
Acknowledge ==
  /\ phase = "served"
  /\ phase' = IF request \in LastRequests THEN "over" ELSE "idle"
  /\ request' = NoRequest
  /\ UNCHANGED log

Next == Open \/ Post \/ Serve \/ Acknowledge

SafeSpec == Init /\ [][Next]_mailboxVars

(* The server is a running CPU: it opens, and it serves what is posted.    *)
Spec ==
  /\ SafeSpec
  /\ WF_mailboxVars(Open)
  /\ WF_mailboxVars(Serve)
  /\ WF_mailboxVars(Acknowledge)
=============================================================================
