----------------------------- MODULE MCVacation -----------------------------
(* Two clients, two customers and two scenes: two flights to choose from,   *)
(* one seat each, the first for one price or two; or a car and a flight at  *)
(* one price, up to two of each.  A client asks for an item once.           *)
EXTENDS VacationProgram, SequencesExt, TLC

CONSTANTS c1, c2, anna, ben

TwoFlightsAndACar == {<<"flight", 1>>, <<"flight", 2>>, <<"car", 1>>}

MCTypeOf == [it \in Items |-> it[1]]

\* What the items of a scene may cost.
Choice == [most |-> 1,
           offers |-> <<"flight", 1>> :> {1, 2} @@ <<"flight", 2>> :> {1}]
Trip   == [most |-> 2,
           offers |-> <<"flight", 1>> :> {1} @@ <<"car", 1>> :> {1}]

VARIABLE scene

Within ==
    /\ \A c \in Clients : /\ ToSet(queries[c]) \subseteq DOMAIN scene.offers
                          /\ IsInjective(queries[c])
    /\ \A it \in Items : Exists(it) =>
           /\ it \in DOMAIN scene.offers
           /\ table[it].numTotal <= scene.most
           /\ table[it].price \in scene.offers[it]

MCInit == scene \in {Choice, Trip} /\ ProgramStart(DOMAIN scene.offers)

MCNext == UNCHANGED scene /\ ProgramNext /\ Within'

MCSpec == MCInit /\ [][MCNext]_<<vars, main, scene>>

Symmetry ==
    {p @@ q : p \in Permutations(Clients), q \in Permutations(Customers)}
=============================================================================
