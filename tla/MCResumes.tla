------------------------------ MODULE MCResumes -----------------------------
(***************************************************************************)
(* Three kinds of traffic: PUTs that select, clear and set aside a resume  *)
(* that is also ingested; ingests of two contents of one resume, one of    *)
(* them as different clients write it, with and without a time of their    *)
(* own, and of one content of another resume; one content of any shape.    *)
(***************************************************************************)
EXTENDS Resumes, TLC

(* One content three times: twice as clients write it, and as it is stored. *)
Draft ==
  [title  |-> Text("pm", FALSE),
   skills |-> List(<<Text("sql", TRUE), Text("go", FALSE), Text("sql", FALSE)>>),
   salary |-> Text("5k", TRUE), phone |-> Text("555", FALSE)]

Retyped ==
  [title  |-> Text("pm", TRUE),
   skills |-> List(<<Text("sql", FALSE), Number(1), Text("go", TRUE)>>),
   salary |-> Object([text |-> Text("5k", FALSE), amount |-> Text("5", FALSE)])]

Returned == Canonical(Draft)

Other == [title |-> Text("lead", FALSE)]
Blank == [title |-> Text("", TRUE), phone |-> Text("555", FALSE)]

(* Any two skills, and a salary of any shape.                              *)
Texts    == {Text("sql", TRUE), Text("sql", FALSE), Text("", TRUE)}
Values   == Texts \cup {Number(1)}
Salaries == Texts \cup {Object([text |-> x, amount |-> y]) : x \in Texts, y \in Values}
Shapes   == {[skills |-> List(<<x, y>>)] : x \in Values, y \in Values}
            \cup {[salary |-> x] : x \in Salaries}

MCContents == {Draft, Retyped, Returned, Other, Blank} \cup Shapes

P(resume, title, status) ==
  [kind |-> "put", resume |-> resume, title |-> title, status |-> status]

I(resume, content, captured) ==
  [kind |-> "ingest", resume |-> resume, content |-> content, captured |-> captured]

MCTraffic ==
  {{P("A", "t", NULL), P("B", NULL, NULL), P(NULL, NULL, NULL), P("A", NULL, "cleared"),
    P(NULL, NULL, "active"), I("A", Draft, NULL)},
   {I("A", Draft, NULL), I("A", Retyped, NULL), I("A", Returned, 1), I("A", Other, NULL),
    I("A", Blank, NULL), I("B", Draft, 2), P("A", "t", NULL)}}
  \cup {{I("A", content, NULL)} : content \in {x \in Shapes : Canonical(x) # Dropped}}

Symmetry == Permutations(Workers) \cup Permutations(ContextIds)

=============================================================================
