----------------------------- MODULE MCServerLoop -----------------------------
(* ServerLoop for TLC, for what must eventually happen.                      *)
EXTENDS ServerLoop

CONSTANT n1

MCNicknames == {n1}
MCBanLists == {{1}}
MCAdminLines == {Invalid}
===============================================================================
