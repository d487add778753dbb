--------------------------- MODULE MCAuditChain ---------------------------
(***************************************************************************)
(* Two proxies, a log of at most three rows, two changes from outside.     *)
(***************************************************************************)
EXTENDS AuditChain, TLC

CONSTANTS a, x, p1, p2

MCCalls  == {a}
MCExtras == {x}

Old == [call |-> a, extra |-> Null]

\* A log of n rows of an older version, without and with hashes.
Plain(n) == [i \in 1..n |-> [columns |-> Old, prev |-> Genesis, hash |-> Genesis]]
Linked(n) ==
  [i \in 1..n |-> [columns |-> Old, prev |-> [j \in 1..(i - 1) |-> Old],
                   hash |-> [j \in 1..i |-> Old]]]

File(s, v, rows) == [shape |-> s, stamp |-> v, log |-> rows]

\* No file yet; a current one, with and without its stamp; one of each older
\* kind; and one of a build to come.
MCStarts ==
  {File("none", "none", <<>>), File("current", "current", Linked(1)),
   File("current", "none", Linked(1)), File("plain", "older", Plain(1)),
   File("chained", "older", Linked(1)), File("plain", "none", Plain(1)),
   File("current", "other", <<>>)}

Processes == Permutations(Proxies)
=============================================================================
