CONSTANTS
  BootConfigs <- MCBootConfigs
  Carts <- MCCarts
  ClearSteps = 3
  MaxLag = 2
SPECIFICATION FairSpec
INVARIANTS
  InStep
  MailboxDelivered
  ServedAsAsked
  BanksAgree
  BootedAsConfigured
PROPERTIES
  ImplementsMailbox
  BothBoot
