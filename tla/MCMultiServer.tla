---------------------------- MODULE MCMultiServer ----------------------------
(* Instances of MultiServer for TLC: small address spaces and the ranges    *)
(* views, clients and scripts use in them.                                  *)
EXTENDS MultiServerStore, TLC

Range(a, n) == a .. a + n - 1

\* Two views with a gap at address 1 between them; a client that asks for the
\* gap as well; a script that writes into it.
GapUnits == {Range(0, 1), Range(2, 1)}
GapRequests == {Range(0, 1), Range(0, 3)}
GapWrites == {Range(1, 1)}

OneUnit == {Range(0, 1)}

TwoUnits == {Range(0, 1), Range(1, 1)}
LocalDefs == {DefaultDefinitions}

\* One view and everything the user can set.
NoWrites == {}
GlobalDefinitions == [DefaultDefinitions EXCEPT !.useGlobal = TRUE]
AutoDefinitions == [DefaultDefinitions EXCEPT !.autoAdd = TRUE]
NarrowDefinitions == [DefaultDefinitions EXCEPT !.wide = FALSE]
AllDefs == {DefaultDefinitions, GlobalDefinitions, AutoDefinitions, NarrowDefinitions}

MiddleRequest == {Range(1, 1)}

SwapConns == Permutations(Conns)
=============================================================================
