----------------------------- MODULE MCHttpAuth -----------------------------
(* Instances of HttpAuth for TLC, and what http-server-design.md says of    *)
(* the first admin.                                                         *)
EXTENDS HttpAuth, TLC

CONSTANTS n1, n2, t1, s1, s2

TwoNames == {n1, n2}
OneName == {n1}
OneToken == {t1}
TwoSlots == {s1, s2}
OneSlot == {s1}

NoFaults == {}

\* Names and slots are interchangeable; a property never tells them apart.
NamesAlike == Permutations(TwoNames) \cup Permutations(TwoSlots)

\* "POST /v1/admin/users with role admin -> mint that user a token"
\* (http-server-design.md, Bootstrap): while the only admin has no token yet, the
\* holder of root, who is the only one that could, is not refused when it mints one.
FirstAdminGetsAToken ==
    [][\A s \in Slots :
          /\ req[s].stage \in {"arrived", "resolve"} /\ req[s].op.kind = "mint"
          /\ VerifyRoot(s)
          /\ Admins = {req[s].op.name}
          /\ \A t \in Tokens : tokens[t].owner # req[s].op.name
          => req'[s].stage # "free"]_vars
=============================================================================
