----------------------------- MODULE MCRoutedPool ---------------------------
(* Instances of RoutedPool for TLC; the cfg files give the other constants. *)
EXTENDS RoutedPool, TLC

CONSTANTS srvA, srvB

Entry(role, addresses) == [role |-> role, addresses |-> addresses]

\* One seed; an answer that knows two servers, with the readers in two
\* entries, and one that knows the other only and expires at once: a list may
\* be empty, short or out of date.
OneSeed    == <<srvA>>
TwoAnswers ==
  {[ttl |-> 1, servers |-> <<Entry("READ", <<srvA>>), Entry("ROUTE", <<srvB>>),
                             Entry("WRITE", <<srvA>>), Entry("READ", <<srvB>>)>>],
   [ttl |-> -1, servers |-> <<Entry("READ", <<srvB>>), Entry("OTHER", <<srvA>>)>>]}

\* One server in every role but the router's.
OneAnswer  == {[ttl |-> 1, servers |-> <<Entry("WRITE", <<srvA>>), Entry("READ", <<srvA>>)>>]}

\* Tasks are interchangeable: no action or invariant names one.
Symmetry == Permutations(Task)
=============================================================================
