----------------------------- MODULE Broadcast -----------------------------
(***************************************************************************)
(* Transactions of the wallet's own screens, from the password to the block: *)
(* reading the account's sequence, signing, posting, waiting for inclusion, *)
(* and the one retry after a sequence mismatch (lib/tx-kernel.ts and, for    *)
(* amino messages, lib/wallet-tx.ts and lib/broadcast.ts), beside other     *)
(* transactions of the same account, lagging nodes and lost replies.        *)
(* A send is one press of Sign: what it pays must be paid once.             *)
(***************************************************************************)
EXTENDS Naturals, FiniteSets

CONSTANTS Sends,   \* transactions the user signs
          MaxSeq   \* bound: the account's sequence

ASSUME SeqAssumption == MaxSeq \in Nat

VARIABLES
  next,    \* the account's sequence on the chain
  pool,    \* accepted transactions that are in no block, by send and sequence
  block,   \* what became of a send's last transaction in a block
  paid,    \* how often a send's messages were carried out
  send     \* signAndBroadcastTx, signAndBroadcast

chain == <<next, pool, block, paid>>
payVars == <<chain, send>>

NoSeq == MaxSeq + 1
Seqs == 0 .. MaxSeq
NewSend == [st |-> "new", attempt |-> 0, forced |-> NoSeq, seq |-> NoSeq, out |-> "none"]

PayInit ==
  /\ next = 0 /\ pool = {}
  /\ block = [s \in Sends |-> "none"]
  /\ paid = [s \in Sends |-> 0]
  /\ send = [s \in Sends |-> NewSend]

\* resolveSignerAccount: what a node says, which may be one block behind, or 0
\* when none can be asked.
Answers == {next, IF next = 0 THEN 0 ELSE next - 1, 0}

\* SIGN_AND_BROADCAST, SIGN_AND_BROADCAST_TX
Confirms(s) ==
  /\ send[s].st = "new"
  /\ send' = [send EXCEPT ![s].st = "reading"]
  /\ UNCHANGED chain

\* The account is read, and the sequence a mismatch named goes before it.
Signs(s) ==
  /\ send[s].st = "reading"
  /\ \E seq \in Answers :
       send' = [send EXCEPT ![s].st = "signed",
                            ![s].seq = IF send[s].forced # NoSeq THEN send[s].forced ELSE seq]
  /\ UNCHANGED chain

\* isSequenceMismatch at the first attempt: the same messages are signed again,
\* with the sequence the node named if it named one.
Mismatched(s, expected) ==
  IF send[s].attempt = 0
  THEN send' = [send EXCEPT ![s].st = "reading", ![s].attempt = 1, ![s].forced = expected]
  ELSE send' = [send EXCEPT ![s].st = "ended", ![s].out = "refused"]

\* Any failure of the first attempt, the lost reply too, is tried again.
RetriedAnyway(s) == Mismatched(s, NoSeq)

\* Another failure is the user's to see: nothing is sent again.
Lost(s) == send' = [send EXCEPT ![s].st = "ended", ![s].out = "lost"]

\* CheckTx: a node expects what is in a block, or after what it has in its pool.
Expected == {next, next + Cardinality(pool)}
Tx(s) == [send |-> s, seq |-> send[s].seq]

Accepted(s) ==
  /\ send[s].st = "signed" /\ send[s].seq \in Expected
  /\ pool' = pool \cup {Tx(s)}
  /\ block' = [block EXCEPT ![s] = "none"]
  /\ send' = [send EXCEPT ![s].st = "waiting"]
  /\ UNCHANGED <<next, paid>>

Rejected(s) ==
  /\ send[s].st = "signed"
  /\ \E e \in Expected \ {send[s].seq}, named \in BOOLEAN :
       /\ e \in Seqs
       /\ Mismatched(s, IF named THEN e ELSE NoSeq)
  /\ UNCHANGED chain

\* broadcastTx: the request ends without an answer; the node may have accepted.
ReplyIsLost(s) ==
  /\ send[s].st = "signed"
  /\ pool' \in {pool} \cup {pool \cup {t} : t \in {Tx(s)} \cap [send : Sends, seq : Expected]}
  /\ Lost(s)
  /\ UNCHANGED <<next, block, paid>>

\* waitForInclusion, waitForTx: the block that has it tells how it went.
Included(s) ==
  /\ send[s].st = "waiting"
  /\ \/ block[s] = "paid" /\ send' = [send EXCEPT ![s].st = "ended", ![s].out = "success"]
     \/ block[s] = "failed" /\ send' = [send EXCEPT ![s].st = "ended", ![s].out = "refused"]
     \/ block[s] = "mismatch" /\ Mismatched(s, NoSeq)
  /\ UNCHANGED chain

\* deadlineMs is over: the result is success.
DeadlinePasses(s) ==
  /\ send[s].st = "waiting"
  /\ send' = [send EXCEPT ![s].st = "ended", ![s].out = "success"]
  /\ UNCHANGED chain

\* The worker stops, or the request fails before it is posted.
Fails(s) ==
  /\ send[s].st \in {"reading", "signed", "waiting"}
  /\ Lost(s)
  /\ UNCHANGED chain

\* A block takes a transaction: its messages are carried out or fail.
Delivers(t) ==
  /\ t \in pool /\ t.seq = next /\ next < MaxSeq
  /\ pool' = pool \ {t}
  /\ next' = next + 1
  /\ \/ paid' = [paid EXCEPT ![t.send] = @ + 1] /\ block' = [block EXCEPT ![t.send] = "paid"]
     \/ paid' = paid /\ block' = [block EXCEPT ![t.send] = "failed"]
  /\ UNCHANGED send

\* Another transaction took its sequence: it is dropped, or fails in a block.
Overtaken(t) ==
  /\ t \in pool /\ t.seq < next
  /\ pool' = pool \ {t}
  /\ block' \in {block, [block EXCEPT ![t.send] = "mismatch"]}
  /\ UNCHANGED <<next, paid, send>>

\* The account signs elsewhere: another device, or a page's own broadcast.
AccountMovesOn ==
  /\ next < MaxSeq
  /\ next' = next + 1
  /\ UNCHANGED <<pool, block, paid, send>>

PayNext ==
  \/ \E s \in Sends :
       \/ Confirms(s) \/ Signs(s)
       \/ Accepted(s) \/ Rejected(s) \/ ReplyIsLost(s)
       \/ Included(s) \/ DeadlinePasses(s) \/ Fails(s)
  \/ \E t \in pool : Delivers(t) \/ Overtaken(t)
  \/ AccountMovesOn

PaySpec == PayInit /\ [][PayNext]_payVars

-----------------------------------------------------------------------------
(* Properties *)

\* The state of the signing paths has its types.
PayTypeOK ==
  /\ next \in Seqs
  /\ pool \subseteq [send : Sends, seq : Nat]
  /\ block \in [Sends -> {"none", "paid", "failed", "mismatch"}]
  /\ paid \in [Sends -> Nat]
  /\ send \in [Sends -> [st : {"new", "reading", "signed", "waiting", "ended"},
                         attempt : 0 .. 1,
                         forced : Seqs \cup {NoSeq}, seq : Seqs \cup {NoSeq},
                         out : {"none", "success", "refused", "lost"}]]

\* isSequenceMismatch: one press of Sign never pays twice, and none that is told
\* the chain refused it has paid or can pay yet, whatever replies are lost, nodes
\* lag, other transactions overtake it and workers stop.
PaysOnce ==
  \A s \in Sends :
    /\ paid[s] <= 1
    /\ send[s].out = "refused" => paid[s] = 0 /\ \A t \in pool : t.send # s

=============================================================================
