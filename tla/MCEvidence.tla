----------------------------- MODULE MCEvidence -----------------------------
(***************************************************************************)
(* Three clients, with requests that touch the same rows; an auditor never *)
(* stops.                                                                  *)
(***************************************************************************)
EXTENDS Evidence

Ask(kind, by, on, value) == [kind |-> kind, by |-> by, on |-> on, value |-> value]

Auditor(u) == Ask("audit", u, None, "confirmed")
Verify(u) == Ask("verify", u, 1, "refuted")
Report(u, status) == Ask("report", u, u, status)
Upload(x) == Ask("upload", "u2", x, None)
Register(u) == Ask("register", None, u, "enrolled")
Stranger(u) == Ask("register", None, u, None)
Retire(u) == Ask("deactivate", "u1", u, None)
Bundle == Ask("bundle", "u1", None, None)
Context == Ask("context", "u2", None, None)

Triples == {
  <<Auditor("u1"), Auditor("u2"), Register("u1")>>,
  <<Auditor("u2"), Ask("report", "u1", None, "fail"), Register("u1")>>,
  <<Auditor("u2"), Verify("u1"), Retire("u2")>>,
  <<Auditor("u2"), Verify("u2"), Verify("u1")>>,
  <<Ask("verify", "u1", 9, "refuted"), Report("u1", "pass"),
    Retire("u3")>>,
  <<Bundle, Upload(First), Report("u2", "pass")>>,
  <<Bundle, Upload(First), Upload(<<"c2", 1>>)>>,
  <<Context, Report("u1", "fail"), Report("u2", "pass")>>,
  <<Context, Report("u1", "pass"), Report("u2", "pass")>>,
  <<Register("u3"), Register("u3"), Stranger("u3")>>,
  <<Ask("assess", "u2", None, None), Retire("u2"), Context>> }

MCScenarios ==
  {[r \in Clients |-> CASE r = "c1" -> q[1] [] r = "c2" -> q[2] [] r = "c3" -> q[3]] :
     q \in Triples}

=============================================================================
