---------------------------- MODULE MCAsmParser ----------------------------
(***************************************************************************)
(* Sources of a few lines: two columns, nested labels of one name,         *)
(* includes in includes, and every way a directive can fail.               *)
(***************************************************************************)
EXTENDS AsmParser

Line(kind) == [kind |-> kind]

SourceLines ==
  {Line("op"), Line("eop"), Line("EOF"), Line("end")}
    \cup [kind : {"label"}, name : {"a"}]
    \cup [kind : {"endl"}, name : {"a", Default}]
    \cup [kind : {"attach"}, col : {0, 1}]
    \cup [kind : {"section"}, data : BOOLEAN]
    \cup [kind : {"annotation"}, ok : BOOLEAN]
    \cup [kind : {"include"}, found : BOOLEAN]
    \cup [kind : {"pad"}, name : {"p"}]
    \cup [kind : {"padfile"}, name : {"p"}, found : BOOLEAN]
    \cup [kind : {"partition"}, ok : {TRUE}, sets : {"columns"}]
    \cup [kind : {"partition"}, ok : {FALSE}]

=============================================================================
