------------------------------ MODULE MCMutex ------------------------------
(* Instances of Mutex for TLC *)
EXTENDS Mutex

Three == 1..3
Two == {"m1", "m2"}
One == {"m1"}

(* A task of each priority *)
Weights == <<0, 1, 2>>
=============================================================================
