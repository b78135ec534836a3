----------------------- MODULE MCLuaServerApplication -----------------------
(***************************************************************************)
(* The instances of LuaServerApplication that TLC checks.  Two requests    *)
(* put two tasks into the queue or one behind another that runs; two       *)
(* workers run process for both at once.                                   *)
(***************************************************************************)
EXTENDS LuaServerApplication
=============================================================================
