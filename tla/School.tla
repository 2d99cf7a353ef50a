-------------------------------- MODULE School --------------------------------
(***************************************************************************)
(* What Coursework and Progress share: the students of a term, and the      *)
(* requests of the handlers.                                                *)
(***************************************************************************)
EXTENDS FiniteSets

CONSTANTS
    Students,
    Workers     \* HTTP requests in flight

ASSUME SchoolAssumption == IsFiniteSet(Students)
===============================================================================
