-------------------------- MODULE MCAuthorization --------------------------
EXTENDS Authorization, TLC

CONSTANTS alice, bob

MCClients == {alice, bob}
MCParams == {"chat", "mail", "neither"}
Sym == Permutations(MCClients)
=============================================================================
