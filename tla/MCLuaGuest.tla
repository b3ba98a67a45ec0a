----------------------------- MODULE MCLuaGuest -----------------------------
(* Coroutines are interchangeable. *)
EXTENDS LuaGuest

CoroutineSymmetry == Permutations(Coroutine)
=============================================================================
