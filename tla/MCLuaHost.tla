----------------------------- MODULE MCLuaHost -----------------------------
(* Names without blanks around them: each is taken for itself, a plain one  *)
(* by its entry and a number as the core's id.                              *)
EXTENDS LuaHost

OwnReads == [n \in Name |-> n]
=============================================================================
