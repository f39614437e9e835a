----------------------------- MODULE MCSessions -----------------------------
(***************************************************************************)
(* Instances of Sessions for TLC: one configuration as the documentation   *)
(* has it, one without bob, one in which two users share a name.           *)
(***************************************************************************)
EXTENDS Sessions, TLC

CONSTANTS alice, bob, p1, p2, guest, reader, writer

Entry(name, pass, perms) == [name |-> name, pass |-> pass, perms |-> perms]

Both == [users |-> << Entry(alice, p1, writer), Entry(bob, p1, reader) >>,
         guest |-> guest]
NoBob == [Both EXCEPT !.users = << Entry(alice, p2, reader) >>]
Twice == [Both EXCEPT !.users =
            << Entry(alice, p1, reader), Entry(alice, p2, writer) >>]

SomeConfigs == {Both, NoBob, Twice}

Symmetric == Permutations(Req) \union Permutations(Token)
=============================================================================
