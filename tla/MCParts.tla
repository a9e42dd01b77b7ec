------------------------------ MODULE MCParts ------------------------------
(* Small instances of the parts that share no state: a behaviour picks one   *)
(* of them, and only that one runs.                                          *)
EXTENDS Session, EventLog, TransferWatch, ChainStream, SwapReview, TLC

VARIABLE part

CONSTANTS op1, op2, seed1, seed2, seed3, p1, p2, k1, k2, plan1, plan2

MCKinds == AllKinds
Switching == {"switch", "lock", "touch", "rename", "reveal"}
MCSiteOf == [x \in Pages |-> IF x = p1 THEN "site 1" ELSE "site 2"]
MCSites == {"site 1", "site 2"}
MCPathOf == (k1 :> "contract") @@ (k2 :> "pool")
MCKeyOf == (plan1 :> k1) @@ (plan2 :> k2)

(* Phrases and operations of the keyring do not differ but by their names:  *)
(* a phrase that comes in is the first that is nowhere, and an operation     *)
(* starts as the first that does not run.                                    *)
SeedOrder == <<seed1, seed2, seed3>>
In(seeds, seed) == \E i \in Indexes : seeds[i] = seed
InMap(map, seed) == map.primary = seed \/ In(map.rows, seed)
Somewhere(seed) ==
  \/ envelope = seed \/ In(extras, seed) \/ In(accounts, seed)
  \/ session.phrase = seed \/ InMap(session.map, seed)
  \/ \E o \in Tasks : \/ task[o].seed = seed \/ InMap(task[o].map, seed)
                      \/ In(task[o].rows, seed) \/ In(task[o].extras, seed)
NamedInOrder ==
  /\ \A i, j \in DOMAIN SeedOrder :
       i < j /\ ~Somewhere(SeedOrder[j]) /\ Somewhere(SeedOrder[j])' => Somewhere(SeedOrder[i])
  /\ At(op1, "idle") /\ At(op2, "idle") => task'[op2] = task[op2]

allVars == <<vars, feedVars, watchVars, streamVars, swapVars>>

PartsInit ==
  /\ part \in {"keyring", "feed", "watch", "stream", "swap"}
  /\ Init /\ FeedInit /\ WatchInit /\ StreamInit /\ SwapInit

PartsNext ==
  /\ UNCHANGED part
  /\ \/ /\ part = "keyring" /\ Next /\ NamedInOrder
        /\ UNCHANGED <<feedVars, watchVars, streamVars, swapVars>>
     \/ /\ part = "feed" /\ FeedNext
        /\ UNCHANGED <<vars, watchVars, streamVars, swapVars>>
     \/ /\ part = "watch" /\ WatchNext
        /\ UNCHANGED <<vars, feedVars, streamVars, swapVars>>
     \/ /\ part = "stream" /\ StreamNext
        /\ UNCHANGED <<vars, feedVars, watchVars, swapVars>>
     \/ /\ part = "swap" /\ SwapNext
        /\ UNCHANGED <<vars, feedVars, watchVars, streamVars>>

PartsSpec == PartsInit /\ [][PartsNext]_<<part, allVars>>

\* Every part's state has its types.
PartsTypeOK ==
  /\ part = "keyring" => TypeOK
  /\ part = "feed" => FeedTypeOK
  /\ part = "watch" => WatchTypeOK
  /\ part = "stream" => StreamTypeOK
  /\ part = "swap" => SwapTypeOK
=============================================================================
