------------------------------ MODULE MCCollection ------------------------------
(***************************************************************************)
(* Small instances of Collection for TLC.                                  *)
(***************************************************************************)
EXTENDS Collection

CONSTANT naver

(* a blog that is often due, a cafe and a source of the web, all with the  *)
(* one key; quota.py has no provider of the last                           *)
Intervals == <<2, 4, 4>>
OneKey == <<naver, naver, naver>>
Naver == <<naver, naver, None>>
Costs == <<1, 2, 1>>

(* more sources than the ticks of their interval                           *)
Crowd == <<1, 1, 1>>

=============================================================================
