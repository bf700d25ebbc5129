SPECIFICATION Spec
CONSTANTS
  alice = alice
  bob = bob
  Clients <- MCClients
  Params <- MCParams
  MaxMsgs = 4
  MaxTroubles = 1
  MaxEdits = 2
  MaxEvents = 4
SYMMETRY Sym
INVARIANTS
  TypeOK
  GrantedWasAgreed
  StoredRequestIsShown
  AnsweredOnce
  BothAgree
