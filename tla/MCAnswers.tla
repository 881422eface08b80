------------------------------ MODULE MCAnswers ------------------------------
(* A conversation and a draft share only the law tool and no state: a run   *)
(* explores either of them, never both.                                     *)
EXTENDS ChatAnswer, Suggestion

Codes == <<"NO_MATCH", "EXTRA", "EXTRA", "EXTRA">>
Weights == <<<<2, 2>>, <<2>>, <<1>>, <<2>>, <<1>>, <<1>>>>
Q(words) == [NoQuestion EXCEPT !.words = words]
Asked == {Q("plain"), Q("impact"), Q("continue"), [Q("plain") EXCEPT !.focus = 2],
  [Q("compare") EXCEPT !.codes = {"EXTRA"}],
  [Q("law") EXCEPT !.articles = {4}],
  [Q("list") EXCEPT !.codes = {"MISSING"}]}

Talk == draft = NoDraft /\ ChatNext /\ UNCHANGED draft
Write == asked = 0 /\ DraftNext /\ UNCHANGED chatVars
Init == ChatInit /\ DraftInit
AnswersSpec == Init /\ [][Talk \/ Write]_<<chatVars, draft>>
=============================================================================
