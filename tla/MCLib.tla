------------------------------- MODULE MCLib --------------------------------
(* The library routines and two user programs on all small inputs. *)
EXTENDS Lib
=============================================================================
