--------------------------- MODULE MCBrokerProtocol ---------------------------
(* Small instances of BrokerProtocol for TLC. *)
EXTENDS BrokerProtocol, TLC

CONSTANT Payload   \* the payloads one balance report may be told with

Cmd(id, op, order, client, request) ==
  [id |-> id, op |-> op, order |-> order, client |-> client, request |-> request]

\* A submission, a second identity for it, a payload alias, its cancel, the
\* submission of another order and one that borrows the first one's client.
MCCommands ==
  { Cmd("s1", "SUBMIT", "o1", "c1", "r1"), Cmd("s2", "SUBMIT", "o1", "c1", "r2"),
    Cmd("s1", "SUBMIT", "o1", "c1", "r3"), Cmd("k1", "CANCEL", "o1", "c1", "r4"),
    Cmd("s3", "SUBMIT", "o2", "c2", "r5"), Cmd("s4", "SUBMIT", "o3", "c1", "r6") }

MCSubmit == { Cmd("s1", "SUBMIT", "o1", "c1", "r1") }

MCFact(identity, fingerprint, order, venue, trades) ==
  [identity |-> identity, fingerprint |-> fingerprint, order |-> order,
   venue |-> venue, trades |-> trades]

Acceptance == MCFact("i1", 1, "o1", "v1", {})
Trade      == MCFact("i2", 1, "o1", None, {"t1"})
Retold     == MCFact("i2", 2, "o1", None, {"t1"})
Balance    == MCFact("i4", 1, None, None, {})
Switched   == MCFact("i3", 1, "o1", "v2", {})

\* Retold changes the payload of Trade, Switched the venue order of Acceptance.
MCFacts == {Acceptance, Trade, Retold, Switched, Balance}

MCView(body) == [order |-> "o1", client |-> "c1", venue |-> "v1", body |-> body]
MCViews == {MCView("open"), MCView("done")}

MCAnswer(proof, as_of, presence, view, facts) ==
  [proof |-> proof, as_of |-> as_of, presence |-> presence, view |-> view, facts |-> facts]

Absence(proof, as_of) == MCAnswer(proof, as_of, "AbsentProven", None, {})

MCAnswers ==
  { Absence("p1", 1), Absence("p2", 2),
    MCAnswer("p1", 1, "Present", MCView("open"), {Acceptance}),
    MCAnswer("p2", 2, "Present", MCView("open"), {}),
    MCAnswer("p2", 2, "Present", MCView("done"), {Trade}),
    MCAnswer("p3", 2, "Present", MCView("done"), {}),
    MCAnswer("p3", 1, "Inconclusive", None, {}) }

MCBriefAnswers == {Absence("p1", 1), Absence("p2", 1)}

\* A balance report told in several ways, each contradicting the others.
MCBalances == {MCFact("i4", p, None, None, {}) : p \in Payload}

\* Transactions, and payloads, are only compared with each other.
TxnSymmetry == Permutations(Txn)
PayloadSymmetry == Permutations(Payload)
===============================================================================
