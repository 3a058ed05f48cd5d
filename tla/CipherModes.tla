----------------------------- MODULE CipherModes -----------------------------
(***************************************************************************)
(* Blocks in chains, over any block cipher: CBC and CFB of polarssl/aes.c, *)
(* and what twltool/dsi.c builds on the cipher: the counter mode with its  *)
(* bytes backwards, the CCM mode of the DSi and the sealed blocks (ES)     *)
(* made with it, the sectors of the NAND (gm9i/crypto.c) and the encrypted *)
(* areas of a cartridge (main.arm7.c).  The routines of gm9i and the modes *)
(* other than the counter mode are compiled into the bootloader and no     *)
(* routine of it calls them.                                               *)
(***************************************************************************)
EXTENDS Uint128

CONSTANTS
  Cipher(_, _),     \* a key and a block to a block
  Decipher(_, _)    \* its inverse

Blocks16 == {v \in Seq(Byte) : Len(v) = 16}

(* A cipher of blocks of sixteen bytes, under keys of as many.             *)
CipherInverts ==
  \A key \in Blocks16, v \in Blocks16 :
    /\ Cipher(key, v) \in Blocks16 /\ Decipher(key, v) \in Blocks16
    /\ Decipher(key, Cipher(key, v)) = v

Block(v, n) == SubSeq(v, (16 * n) - 15, 16 * n)
Join(f, n) ==
  LET joined[i \in 0..n] == IF i = 0 THEN <<>> ELSE joined[i - 1] \o f[i]
  IN joined[n]

AES_ENCRYPT == 1
AES_DECRYPT == 0
AES_INVALID_INPUT_LENGTH == -2064

-----------------------------------------------------------------------------
(* polarssl/aes.c.  A result holds what is written, what is returned, and  *)
(* what is left in iv and iv_off for the next call.                        *)

aes_crypt_cbc(key, mode, iv, input) ==
  LET blocks == Len(input) \div 16
      done[n \in 0..blocks] ==
        IF n = 0 THEN [iv |-> iv, output |-> <<>>]
        ELSE LET before == done[n - 1]
                 in == Block(input, n)
                 out == IF mode = AES_DECRYPT
                        THEN XorAll(Decipher(key, in), before.iv)
                        ELSE Cipher(key, XorAll(in, before.iv))
             IN [iv |-> IF mode = AES_DECRYPT THEN in ELSE out,
                 output |-> before.output \o out]
  IN IF Len(input) % 16 # 0
     THEN [ret |-> AES_INVALID_INPUT_LENGTH, iv |-> iv, output |-> <<>>]
     ELSE [ret |-> 0, iv |-> done[blocks].iv, output |-> done[blocks].output]

(* Mutant: a call begins a new block.                                      *)
aes_crypt_cfb128_NewBlock(key, mode, iv_off, iv, input) ==
  LET done[i \in 0..Len(input)] ==
        IF i = 0 THEN [iv |-> iv, output |-> <<>>]
        ELSE LET before == done[i - 1]
                 n == (i - 1) % 16
                 stream == IF n = 0 THEN Cipher(key, before.iv) ELSE before.iv
                 c == Xor(input[i], stream[n + 1])
             IN [iv |-> [stream EXCEPT ![n + 1] =
                           IF mode = AES_DECRYPT THEN input[i] ELSE c],
                 output |-> Append(before.output, c)]
  IN [iv |-> done[Len(input)].iv, iv_off |-> (iv_off + Len(input)) % 16,
      output |-> done[Len(input)].output]

(* The key stream is the cipher of the last sixteen bytes of ciphertext,   *)
(* and a call may end, and the next begin, inside a block.                 *)
aes_crypt_cfb128(key, mode, iv_off, iv, input) ==
  LET done[i \in 0..Len(input)] ==
        IF i = 0 THEN [iv |-> iv, output |-> <<>>]
        ELSE LET before == done[i - 1]
                 n == (iv_off + i - 1) % 16
                 stream == IF n = 0 THEN Cipher(key, before.iv) ELSE before.iv
                 c == Xor(input[i], stream[n + 1])
             IN [iv |-> [stream EXCEPT ![n + 1] =
                           IF mode = AES_DECRYPT THEN input[i] ELSE c],
                 output |-> Append(before.output, c)]
  IN [iv |-> done[Len(input)].iv, iv_off |-> (iv_off + Len(input)) % 16,
      output |-> done[Len(input)].output]

-----------------------------------------------------------------------------
(* twltool/dsi.c: the counter mode.                                        *)

dsi_set_key(key) == u128_swap(key)
dsi_set_ctr(ctx, ctr) == [ctx EXCEPT !.ctr = Backwards(ctr)]

dsi_init_ctr(key, ctr) == [key |-> dsi_set_key(key), ctr |-> Backwards(ctr)]

(* Mutant: the carry goes no further than one byte.                        *)
dsi_add_ctr_OneCarry(ctx) ==
  [ctx EXCEPT !.ctr =
     <<>> \o [i \in 1..16 |-> IF i = 16 \/ (i = 15 /\ ctx.ctr[16] = 255)
                              THEN (ctx.ctr[i] + 1) % 256 ELSE ctx.ctr[i]]]

(* One is added at the last byte; a byte changes when all after it are 255. *)
dsi_add_ctr(ctx) ==
  [ctx EXCEPT !.ctr =
     <<>> \o [i \in 1..16 |-> IF \A j \in (i + 1)..16 : ctx.ctr[j] = 255
                              THEN (ctx.ctr[i] + 1) % 256 ELSE ctx.ctr[i]]]

dsi_crypt_ctr_block(ctx, input) ==
  [ctx |-> dsi_add_ctr(ctx),
   output |-> XorAll(Backwards(Cipher(ctx.key, ctx.ctr)), input)]

(* Block after block: how the context moves on, and what is written.       *)
dsi_crypt_ctr(ctx, input) ==
  LET blocks == Len(input) \div 16
      at[n \in 0..blocks] == IF n = 0 THEN ctx ELSE dsi_add_ctr(at[n - 1])
  IN [ctx |-> at[blocks],
      output |-> Join([n \in 1..blocks |->
                         dsi_crypt_ctr_block(at[n - 1], Block(input, n)).output],
                      blocks)]

(* main.arm7.c: whole blocks only, the rest of the area stays as it is.    *)
decrypt_modcrypt_area(ctx, buffer) ==
  LET whole == SubSeq(buffer, 1, 16 * (Len(buffer) \div 16))
      done == dsi_crypt_ctr(ctx, whole)
  IN [ctx |-> done.ctx, output |-> Over(buffer, 0, done.output)]

-----------------------------------------------------------------------------
(* twltool/dsi.c: CCM.                                                     *)

dsi_init_ccm(key, maclength, payloadlength, assoclength, nonce) ==
  LET padded == ((payloadlength + 15) \div 16) * 16
      flags == (((maclength - 2) \div 2) * 8) + 2
                 + (IF assoclength # 0 THEN 64 ELSE 0)
      B0 == <<flags>> \o Backwards(nonce)
              \o <<(padded \div 65536) % 256, (padded \div 256) % 256, padded % 256>>
      start == [key |-> dsi_set_key(key),
                ctr |-> <<2>> \o Backwards(nonce) \o <<0, 0, 0>>]
      S0 == dsi_crypt_ctr_block(start, Zeros(16))
  IN [key |-> start.key, ctr |-> S0.ctx.ctr, S0 |-> S0.output,
      mac |-> Cipher(start.key, B0)]

Mixed(ctx, plain) ==
  [ctx EXCEPT !.mac = Cipher(ctx.key, XorAll(ctx.mac, Backwards(plain)))]
Mac(ctx) == XorAll(Backwards(ctx.mac), ctx.S0)

dsi_encrypt_ccm_block(ctx, input) == dsi_crypt_ctr_block(Mixed(ctx, input), input)

dsi_decrypt_ccm_block(ctx, input) ==
  LET done == dsi_crypt_ctr_block(ctx, input)
  IN [ctx |-> Mixed(done.ctx, done.output), output |-> done.output]

(* The blocks before the last, which has one to sixteen bytes (or none of  *)
(* an empty payload).                                                      *)
FullBlocks(input) == IF input = <<>> THEN 0 ELSE (Len(input) - 1) \div 16
Tail16(input) == SubSeq(input, (16 * FullBlocks(input)) + 1, Len(input))

dsi_encrypt_ccm(ctx, input) ==
  LET at[n \in 0..FullBlocks(input)] ==
        IF n = 0 THEN [ctx |-> ctx, output |-> <<>>]
        ELSE LET before == at[n - 1]
                 done == dsi_encrypt_ccm_block(before.ctx, Block(input, n))
             IN [ctx |-> done.ctx, output |-> before.output \o done.output]
      full == at[FullBlocks(input)]
      tail == Tail16(input)
      last == dsi_encrypt_ccm_block(full.ctx, tail \o Zeros(16 - Len(tail)))
  IN [mac |-> Mac(last.ctx),
      output |-> full.output \o SubSeq(last.output, 1, Len(tail))]

(* Mutant: what fills up the last block is deciphered to something else    *)
(* than the zeros it was filled with.                                      *)
LastBlock_Zeros(ctx, tail) == tail \o Zeros(16 - Len(tail))

(* The last block is filled up with the key stream, which deciphers to     *)
(* zeros.                                                                  *)
LastBlock(ctx, tail) ==
  Over(dsi_crypt_ctr_block(ctx, Zeros(16)).output, 0, tail)

dsi_decrypt_ccm(ctx, input) ==
  LET at[n \in 0..FullBlocks(input)] ==
        IF n = 0 THEN [ctx |-> ctx, output |-> <<>>]
        ELSE LET before == at[n - 1]
                 done == dsi_decrypt_ccm_block(before.ctx, Block(input, n))
             IN [ctx |-> done.ctx, output |-> before.output \o done.output]
      full == at[FullBlocks(input)]
      tail == Tail16(input)
      last == dsi_decrypt_ccm_block(full.ctx, LastBlock(full.ctx, tail))
  IN [mac |-> Mac(last.ctx),
      output |-> full.output \o SubSeq(last.output, 1, Len(tail))]

-----------------------------------------------------------------------------
(* twltool/dsi.c: sealed blocks.  es is [key, nonce, randomnonce]; random  *)
(* is what rand() gives.                                                   *)

dsi_es_init(key) == [key |-> key, nonce |-> Zeros(12), randomnonce |-> TRUE]
dsi_es_set_nonce(es, nonce) == [es EXCEPT !.nonce = nonce, !.randomnonce = FALSE]
dsi_es_set_random_nonce(es) == [es EXCEPT !.randomnonce = TRUE]

dsi_es_encrypt(es, buffer, random) ==
  LET nonce == IF es.randomnonce THEN random ELSE es.nonce
      size == Len(buffer)
      sealed == dsi_encrypt_ccm(dsi_init_ccm(es.key, 16, size, 0, nonce), buffer)
      scratchpad == <<58>> \o Zeros(12)
                      \o <<(size \div 65536) % 256, (size \div 256) % 256, size % 256>>
      ctr == <<0>> \o nonce \o Zeros(3)
      meta == dsi_crypt_ctr_block(dsi_init_ctr(es.key, ctr), scratchpad).output
  IN [buffer |-> sealed.output,
      metablock |-> sealed.mac \o Over(meta, 1, nonce)]

dsi_es_decrypt(es, buffer, metablock, size) ==
  LET meta == SubSeq(metablock, 17, 32)
      ctr == <<0>> \o SubSeq(meta, 2, 13) \o <<0, 0, 0>>
      scratchpad == dsi_crypt_ctr_block(dsi_init_ctr(es.key, ctr), meta).output
      chksize == (65536 * scratchpad[14]) + (256 * scratchpad[15]) + scratchpad[16]
      opened == dsi_decrypt_ccm(dsi_init_ccm(es.key, 16, size, 0, SubSeq(meta, 2, 13)),
                                buffer)
  IN CASE scratchpad[1] # 58 -> [ret |-> -1, buffer |-> buffer]
       [] scratchpad[1] = 58 /\ chksize # size -> [ret |-> -2, buffer |-> buffer]
       [] OTHER -> [ret |-> IF opened.mac # SubSeq(metablock, 1, 16) THEN -3 ELSE 0,
                    buffer |-> opened.output]

-----------------------------------------------------------------------------
(* gm9i/crypto.c: sectors, each under a counter of its own.  iv is what    *)
(* dsi_crypt_init leaves in nand_ctr_iv.                                   *)

dsi_nand_crypt_1(ctx, iv, in, offset) ==
  dsi_crypt_ctr(dsi_set_ctr(ctx, u128_add32(iv, offset)), in).output

dsi_nand_crypt(ctx, iv, in, offset, count) ==
  LET ctr[n \in 1..count] ==
        IF n = 1 THEN u128_add32(iv, offset) ELSE u128_add32(ctr[n - 1], 1)
  IN Join([n \in 1..count |->
             dsi_crypt_ctr(dsi_set_ctr(ctx, ctr[n]), Block(in, n)).output],
          count)

(* The counter is made of the size, its negation and its complement, and   *)
(* stays where it is for the next call.                                    *)
dsi_boot2_crypt_set_ctr(size_r) ==
  LET complement == XorAll(Bytes32(size_r), <<255, 255, 255, 255>>)
  IN Bytes32(size_r) \o u128_add(complement, <<1, 0, 0, 0>>) \o complement
       \o Zeros(4)

dsi_boot2_crypt(ctx, boot2_ctr, in, count) ==
  LET ctr[n \in 1..(count + 1)] ==
        IF n = 1 THEN boot2_ctr ELSE u128_add32(ctr[n - 1], 1)
  IN [ctr |-> ctr[count + 1],
      output |-> Join([n \in 1..count |->
                         dsi_crypt_ctr(dsi_set_ctr(ctx, ctr[n]), Block(in, n)).output],
                      count)]
=============================================================================
