------------------------- MODULE ProviderCallsProofs -------------------------
(***************************************************************************)
(* Theorems about ProviderCalls, for every number of calls, sites, chains,  *)
(* accounts and phrases, every way the accounts share them, and every queue *)
(* limit.                                                                  *)
(***************************************************************************)
EXTENDS ProviderCalls, FiniteSetTheorems, TLAPS

\* A reading of activeKey is a key, whichever phrase it was given.
LEMMA KeyType ==
  ASSUME NEW phrase \in Phrases, NEW row \in Accounts
  PROVE  /\ Key(phrase, row) \in Keys
         /\ Key(phrase, row).row = row
         /\ Key(phrase, row).address \in Addresses
  BY WalletAssumption DEF Key, Keys, Address, Addresses

\* A call nobody has made yet is a call.
LEMMA NewCallType == NewCall \in CallRecords
  BY LimitAssumption DEF NewCall, CallRecords, Stages

\* Answering prompts keeps the promises of the others and their types.
LEMMA AnswerTypes ==
  ASSUME TypeOK, NEW S, NEW outcome \in Queue!Outcomes, Queue!Answer(S, outcome)
  PROVE  /\ promise' \in [Ids -> {"none", "pending"} \cup Queue!Outcomes]
         /\ \A id \in Ids : promise[id] # "pending" => promise'[id] = promise[id]
         /\ \A id \in Ids : promise'[id] = "pending" => promise[id] = "pending"
         /\ \A id \in Ids : promise'[id] = "none" => promise[id] = "none"
  BY DEF TypeOK, Queue!Answer, Queue!Waiting, Queue!Ids, Ids, Queue!Outcomes

\* What a call asks the user is a prompt.
LEMMA PromptForType ==
  ASSUME TypeOK, NEW c \in Calls, Prompting(c), call[c].method # "none",
         call[c].origin \in Origins,
         call[c].method = "sign" => call[c].signer \in Addresses,
         call[c].method # "getKey"
  PROVE  PromptFor(c) \in PromptRecords
<1>1. call[c] \in CallRecords
  BY DEF TypeOK
<1>2. CASE call[c].method = "enable"
  BY <1>1, <1>2 DEF CallRecords, PromptFor, EnablePrompt, PromptRecords
<1>3. CASE call[c].method = "suggest"
  BY <1>1, <1>3 DEF CallRecords, PromptFor, SuggestPrompt, PromptRecords
<1>4. CASE call[c].method = "sign"
  BY <1>1, <1>4 DEF CallRecords, PromptFor, SignPrompt, PromptRecords
<1>. QED
  BY <1>1, <1>2, <1>3, <1>4 DEF CallRecords, Methods

-----------------------------------------------------------------------------
(* The inductive invariant *)

\* What the stage of a call says of its fields.
CallInv(c) ==
  /\ call[c].st # "new" =>
       /\ call[c].method \in Methods /\ call[c].origin \in Origins
       /\ call[c].method = "sign" => call[c].signer \in Addresses
  /\ call[c].st \in {"active", "reactive"} => call[c].phrase \in Phrases
  /\ call[c].st \in {"rephrase", "reactive"} => call[c].method = "sign"
  /\ call[c].st = "active" => call[c].method \in {"getKey", "sign"}
  /\ call[c].st = "permission" => call[c].method = "enable"
  /\ call[c].st = "phrase" => call[c].method \in {"getKey", "sign"}
  /\ call[c].st = "waiting" => call[c].method \in {"enable", "getKey", "sign"}
  /\ call[c].st \in {"prompting", "prompted", "granting"} => call[c].method # "getKey"
  /\ call[c].st = "granting" => call[c].method \in {"enable", "suggest"}

\* Stages in which a call owns or shares a prompt.
Holds(c) == call[c].st \in {"prompted", "rephrase", "reactive", "granting"} \/ Signed(c)

\* The prompt a call holds is its own request, or a connection prompt that lists
\* its chains; past the answer it was approved.
PromptInv(c) ==
  Holds(c) =>
    /\ call[c].id \in Ids
    /\ promise[call[c].id] # "none"
    /\ call[c].st # "prompted" => promise[call[c].id] = "approved"
    /\ call[c].method = "sign" =>
         prompt[call[c].id] = SignPrompt(call[c].origin, call[c].signer)
    /\ call[c].method = "enable" =>
         /\ prompt[call[c].id].kind = "enable"
         /\ prompt[call[c].id].origin = call[c].origin
         /\ call[c].chains \subseteq prompt[call[c].id].chains
    /\ call[c].method = "sign" =>
         \A d \in Calls : Holds(d) /\ call[d].id = call[c].id => d = c

\* A signature was made by the signer's key on the row read before the prompt.
KeyInv(c) ==
  Signed(c) => call[c].key.address = call[c].signer
               /\ call[c].key.row = call[c].before.row

\* findPendingEnable has at most one answer.
JoinInv ==
  \A o \in Origins : \A i, j \in Joinable(o) : i = j

\* Every slot of the queue that was used names what it asks.
AskedInv ==
  \A id \in Ids : promise[id] # "none" => prompt[id] # NoPrompt

IInv ==
  /\ TypeOK
  /\ \A c \in Calls : CallInv(c) /\ PromptInv(c) /\ KeyInv(c)
  /\ GrantsWereApproved
  /\ JoinInv
  /\ AskedInv

\* The worker starts with no call and no prompt.
LEMMA InitIInv == Init => IInv
<1>. SUFFICES ASSUME Init PROVE IInv
  OBVIOUS
<1>1. TypeOK
  <2>1. NewCall \in CallRecords
    BY NewCallType
  <2>2. NoPrompt \in PromptRecords
    BY DEF PromptRecords
  <2>3. promise \in [Ids -> {"none", "pending"} \cup Queue!Outcomes]
    BY DEF Init, Queue!Init, Queue!Ids, Ids
  <2>. QED
    BY <2>1, <2>2, <2>3, WalletAssumption, ChainAssumption DEF Init, TypeOK
<1>2. \A c \in Calls : CallInv(c) /\ PromptInv(c) /\ KeyInv(c)
  BY DEF Init, NewCall, CallInv, PromptInv, KeyInv, Holds, Signed
<1>3. GrantsWereApproved
  BY DEF Init, GrantsWereApproved
<1>4. JoinInv
  BY DEF Init, JoinInv, Joinable, Queue!Waiting, Queue!Init, Queue!Ids
<1>5. AskedInv
  BY DEF Init, AskedInv, Queue!Init, Queue!Ids, Ids
<1>. QED
  BY <1>1, <1>2, <1>3, <1>4, <1>5 DEF IInv
\* Moving a call to another stage changes nothing else of it.
LEMMA GoesTypes ==
  ASSUME call \in [Calls -> CallRecords], NEW c \in Calls, NEW st \in Stages,
         Goes(c, st)
  PROVE  /\ call' \in [Calls -> CallRecords]
         /\ call'[c] = [call[c] EXCEPT !.st = st]
         /\ \A d \in Calls : d # c => call'[d] = call[d]
  BY DEF Goes, CallRecords

\* A step of one call changes that call only, and keeps types and stages.
LEMMA ProgressTypes ==
  ASSUME IInv, NEW c \in Calls, Request(c) \/ Progress(c)
  PROVE  /\ TypeOK'
         /\ CallInv(c)'
         /\ \A d \in Calls : d # c => call'[d] = call[d]
<1>. USE DEF promptVars, walletVars
<1>1. call[c] \in CallRecords /\ CallInv(c) /\ PromptInv(c) /\ TypeOK
  BY DEF IInv, TypeOK
<1>2. call \in [Calls -> CallRecords]
  BY DEF IInv, TypeOK
<1>3. CASE Request(c)
  <2>1. PICK m \in Methods, o \in Origins, cs \in SUBSET Chains \ {{}},
             s \in Addresses \cup {NoAddress} :
          /\ m = "sign" <=> s # NoAddress
          /\ call' = [call EXCEPT ![c] = Asked(m, o, cs, s)]
    BY <1>3 DEF Request
  <2>2. /\ Asked(m, o, cs, s) \in CallRecords
        /\ Asked(m, o, cs, s).st = "asked" /\ Asked(m, o, cs, s).method = m
        /\ Asked(m, o, cs, s).origin = o /\ Asked(m, o, cs, s).signer = s
    BY NewCallType DEF Asked, CallRecords, Stages
  <2>3. call'[c] = Asked(m, o, cs, s)
    BY <1>2, <2>1
  <2>4. call' \in [Calls -> CallRecords]
    BY <1>2, <2>1, <2>2
  <2>5. CallInv(c)'
    BY <2>1, <2>2, <2>3 DEF CallInv
  <2>. QED
    BY <1>1, <1>2, <1>3, <2>1, <2>4, <2>5 DEF TypeOK, Request
<1>4. CASE EnableStarts(c)
  <2>. DEFINE st == IF ~ (call[c].chains \subseteq known) THEN "failed"
                ELSE IF session.phrase = NoPhrase THEN "waiting" ELSE "permission"
  <2>1. Goes(c, st) /\ st \in Stages
    BY <1>4 DEF EnableStarts, Stages
  <2>. HIDE DEF st
  <2>2. /\ call' \in [Calls -> CallRecords]
        /\ call'[c] = [call[c] EXCEPT !.st = st]
        /\ \A d \in Calls : d # c => call'[d] = call[d]
    BY <1>2, <2>1, GoesTypes
  <2>3. CallInv(c)'
    BY <1>1, <1>4, <2>2 DEF CallInv, CallRecords, EnableStarts, Methods, st
  <2>. QED
    BY <1>1, <1>4, <2>2, <2>3 DEF TypeOK, EnableStarts
<1>5. CASE EnableChecks(c)
  <2>. DEFINE st == IF call[c].chains \subseteq grants[call[c].origin] THEN "done"
                ELSE "prompting"
  <2>1. Goes(c, st) /\ st \in Stages
    BY <1>5 DEF EnableChecks, Stages
  <2>. HIDE DEF st
  <2>2. /\ call' \in [Calls -> CallRecords]
        /\ call'[c] = [call[c] EXCEPT !.st = st]
        /\ \A d \in Calls : d # c => call'[d] = call[d]
    BY <1>2, <2>1, GoesTypes
  <2>3. CallInv(c)'
    BY <1>1, <1>5, <2>2 DEF CallInv, CallRecords, EnableChecks, Methods, st
  <2>. QED
    BY <1>1, <1>5, <2>2, <2>3 DEF TypeOK, EnableChecks
<1>6. CASE PermissionChecked(c)
  <2>. DEFINE st == IF call[c].chains \subseteq grants[call[c].origin] THEN "phrase"
                ELSE "failed"
  <2>1. Goes(c, st) /\ st \in Stages
    BY <1>6 DEF PermissionChecked, Stages
  <2>. HIDE DEF st
  <2>2. /\ call' \in [Calls -> CallRecords]
        /\ call'[c] = [call[c] EXCEPT !.st = st]
        /\ \A d \in Calls : d # c => call'[d] = call[d]
    BY <1>2, <2>1, GoesTypes
  <2>3. CallInv(c)'
    BY <1>1, <1>6, <2>2 DEF CallInv, CallRecords, PermissionChecked, Methods, st
  <2>. QED
    BY <1>1, <1>6, <2>2, <2>3 DEF TypeOK, PermissionChecked
<1>7. CASE SuggestStarts(c)
  <2>. DEFINE st == IF call[c].chains \subseteq known THEN "done" ELSE "prompting"
  <2>1. Goes(c, st) /\ st \in Stages
    BY <1>7 DEF SuggestStarts, Stages
  <2>. HIDE DEF st
  <2>2. /\ call' \in [Calls -> CallRecords]
        /\ call'[c] = [call[c] EXCEPT !.st = st]
        /\ \A d \in Calls : d # c => call'[d] = call[d]
    BY <1>2, <2>1, GoesTypes
  <2>3. CallInv(c)'
    BY <1>1, <1>7, <2>2 DEF CallInv, CallRecords, SuggestStarts, Methods, st
  <2>. QED
    BY <1>1, <1>7, <2>2, <2>3 DEF TypeOK, SuggestStarts
<1>8. CASE QueueFull(c)
  <2>. DEFINE st == "failed"
  <2>1. Goes(c, st) /\ st \in Stages
    BY <1>8 DEF QueueFull, Stages
  <2>. HIDE DEF st
  <2>2. /\ call' \in [Calls -> CallRecords]
        /\ call'[c] = [call[c] EXCEPT !.st = st]
        /\ \A d \in Calls : d # c => call'[d] = call[d]
    BY <1>2, <2>1, GoesTypes
  <2>3. CallInv(c)'
    BY <1>1, <1>8, <2>2 DEF CallInv, CallRecords, QueueFull, Prompting, Methods, st
  <2>. QED
    BY <1>1, <1>8, <2>2, <2>3 DEF TypeOK, QueueFull
<1>9. CASE AnswerArrives(c)
  <2>. DEFINE st == IF promise[call[c].id] # "approved" THEN "failed"
                ELSE IF call[c].method = "sign" THEN "rephrase" ELSE "granting"
  <2>1. Goes(c, st) /\ st \in Stages
    BY <1>9 DEF AnswerArrives, Stages
  <2>. HIDE DEF st
  <2>2. /\ call' \in [Calls -> CallRecords]
        /\ call'[c] = [call[c] EXCEPT !.st = st]
        /\ \A d \in Calls : d # c => call'[d] = call[d]
    BY <1>2, <2>1, GoesTypes
  <2>3. CallInv(c)'
    BY <1>1, <1>9, <2>2 DEF CallInv, CallRecords, AnswerArrives, Methods, st
  <2>. QED
    BY <1>1, <1>9, <2>2, <2>3 DEF TypeOK, AnswerArrives
<1>10. CASE Granted(c)
  <2>. DEFINE st == "done"
  <2>1. Goes(c, st) /\ st \in Stages
    BY <1>10 DEF Granted, Stages
  <2>. HIDE DEF st
  <2>2. /\ call' \in [Calls -> CallRecords]
        /\ call'[c] = [call[c] EXCEPT !.st = st]
        /\ \A d \in Calls : d # c => call'[d] = call[d]
    BY <1>2, <2>1, GoesTypes
  <2>3. CallInv(c)'
    BY <1>1, <1>10, <2>2 DEF CallInv, CallRecords, Granted, Methods, st
  <2>. QED
    BY <1>1, <1>10, <2>2, <2>3 DEF TypeOK, Granted, CallRecords, CallInv
<1>11. CASE PhraseRead(c)
  <2>. DEFINE st == IF session.phrase # NoPhrase THEN "active"
                ELSE IF call[c].retry THEN "failed" ELSE "waiting"
  <2>1. /\ st \in Stages
        /\ call'[c] = [call[c] EXCEPT !.phrase = session.phrase, !.st = st]
        /\ \A d \in Calls : d # c => call'[d] = call[d]
        /\ call' = [call EXCEPT ![c] = call'[c]]
    BY <1>1, <1>2, <1>11 DEF PhraseRead, Stages, CallRecords
  <2>. HIDE DEF st
  <2>2. /\ call'[c] \in CallRecords
        /\ call'[c].st = st /\ call'[c].phrase = session.phrase
        /\ call'[c].method = call[c].method /\ call'[c].origin = call[c].origin
        /\ call'[c].signer = call[c].signer
    <3>1. session.phrase \in Phrases \cup {NoPhrase}
      BY <1>1 DEF TypeOK
    <3>. QED
      BY <1>1, <2>1, <3>1 DEF CallRecords
  <2>3. call' \in [Calls -> CallRecords]
    BY <1>2, <2>1, <2>2
  <2>4. CallInv(c)'
    BY <1>1, <1>11, <2>2 DEF CallInv, PhraseRead, TypeOK, st
  <2>. QED
    BY <1>1, <1>11, <2>1, <2>3, <2>4 DEF TypeOK, PhraseRead
<1>12. CASE PhraseReread(c)
  <2>. DEFINE st == IF session.phrase = NoPhrase THEN "failed" ELSE "reactive"
  <2>1. /\ st \in Stages
        /\ call'[c] = [call[c] EXCEPT !.phrase = session.phrase, !.st = st]
        /\ \A d \in Calls : d # c => call'[d] = call[d]
        /\ call' = [call EXCEPT ![c] = call'[c]]
    BY <1>1, <1>2, <1>12 DEF PhraseReread, Stages, CallRecords
  <2>. HIDE DEF st
  <2>2. /\ call'[c] \in CallRecords
        /\ call'[c].st = st /\ call'[c].phrase = session.phrase
        /\ call'[c].method = call[c].method /\ call'[c].origin = call[c].origin
        /\ call'[c].signer = call[c].signer
    <3>1. session.phrase \in Phrases \cup {NoPhrase}
      BY <1>1 DEF TypeOK
    <3>. QED
      BY <1>1, <2>1, <3>1 DEF CallRecords
  <2>3. call' \in [Calls -> CallRecords]
    BY <1>2, <2>1, <2>2
  <2>4. CallInv(c)'
    BY <1>1, <1>12, <2>2 DEF CallInv, PhraseReread, TypeOK, st
  <2>. QED
    BY <1>1, <1>12, <2>1, <2>3, <2>4 DEF TypeOK, PhraseReread
<1>13. CASE KeyRead(c)
  <2>. DEFINE key == Key(call[c].phrase, session.active)
  <2>1. key \in Keys
    BY <1>1, <1>13, KeyType DEF TypeOK, KeyRead, CallInv
  <2>2. call'[c] = [call[c] EXCEPT !.before = key,
          !.st = IF call[c].method = "getKey" THEN "done"
                 ELSE IF key.address = call[c].signer THEN "prompting" ELSE "failed"]
    BY <1>1, <1>2, <1>13 DEF KeyRead, CallRecords
  <2>. HIDE DEF key
  <2>3. /\ \A d \in Calls : d # c => call'[d] = call[d]
        /\ call' = [call EXCEPT ![c] = call'[c]]
    BY <1>1, <1>2, <1>13 DEF KeyRead, CallRecords
  <2>4. /\ call'[c] \in CallRecords
        /\ call'[c].st \in {"done", "prompting", "failed"}
        /\ call'[c].st = "prompting" => call[c].method # "getKey"
        /\ call'[c].method = call[c].method /\ call'[c].origin = call[c].origin
        /\ call'[c].signer = call[c].signer
    <3>. DEFINE st == IF call[c].method = "getKey" THEN "done"
                      ELSE IF key.address = call[c].signer THEN "prompting" ELSE "failed"
    <3>1. st \in Stages /\ st \in {"done", "prompting", "failed"}
          /\ (st = "prompting" => call[c].method # "getKey")
      BY DEF Stages
    <3>2. call'[c] = [call[c] EXCEPT !.before = key, !.st = st]
      BY <2>2
    <3>. HIDE DEF st
    <3>. QED
      BY <1>1, <2>1, <3>1, <3>2 DEF CallRecords
  <2>5. call' \in [Calls -> CallRecords]
    BY <1>2, <2>3, <2>4
  <2>6. CallInv(c)'
    BY <1>1, <1>13, <2>4 DEF CallInv, KeyRead
  <2>. QED
    BY <1>1, <1>13, <2>3, <2>5, <2>6 DEF TypeOK, KeyRead
<1>14. CASE KeyReread(c)
  <2>. DEFINE key == Key(call[c].phrase, session.active)
  <2>1. key \in Keys
    BY <1>1, <1>14, KeyType DEF TypeOK, KeyReread, CallInv
  <2>2. call'[c] = (IF key.row = call[c].before.row /\ key.address = call[c].signer
                       THEN [call[c] EXCEPT !.st = "done", !.key = key]
                       ELSE [call[c] EXCEPT !.st = "failed"])
    BY <1>1, <1>2, <1>14 DEF KeyReread, CallRecords
  <2>. HIDE DEF key
  <2>3. /\ \A d \in Calls : d # c => call'[d] = call[d]
        /\ call' = [call EXCEPT ![c] = call'[c]]
    BY <1>1, <1>2, <1>14 DEF KeyReread, CallRecords
  <2>4. /\ call'[c] \in CallRecords
        /\ call'[c].st \in {"done", "failed"}
        /\ call'[c].method = call[c].method /\ call'[c].origin = call[c].origin
        /\ call'[c].signer = call[c].signer
    <3>1. "done" \in Stages /\ "failed" \in Stages
      BY DEF Stages
    <3>2. CASE call'[c] = [call[c] EXCEPT !.st = "done", !.key = key]
      BY <1>1, <2>1, <3>1, <3>2 DEF CallRecords
    <3>3. CASE call'[c] = [call[c] EXCEPT !.st = "failed"]
      BY <1>1, <3>1, <3>3 DEF CallRecords
    <3>. QED
      BY <2>2, <3>2, <3>3
  <2>5. call' \in [Calls -> CallRecords]
    BY <1>2, <2>3, <2>4
  <2>6. CallInv(c)'
    BY <1>1, <1>14, <2>4 DEF CallInv, KeyReread
  <2>. QED
    BY <1>1, <1>14, <2>3, <2>5, <2>6 DEF TypeOK, KeyReread
<1>15. CASE JoinPrompt(c)
  <2>1. PICK id \in Joinable(call[c].origin) :
          /\ prompt' = [prompt EXCEPT ![id].chains = @ \cup call[c].chains]
          /\ call' = [call EXCEPT ![c].st = "prompted", ![c].id = id]
    BY <1>15 DEF JoinPrompt
  <2>2. id \in Ids /\ prompt[id].kind = "enable" /\ prompt[id] \in PromptRecords
    BY <1>1, <2>1 DEF TypeOK, Joinable, Queue!Waiting, Queue!Ids, Ids
  <2>3. prompt'[id] \in PromptRecords
    <3>1. prompt[id] \in [kind : {"enable", "suggest"}, origin : Origins, chains : SUBSET Chains]
      BY <2>2 DEF PromptRecords, NoPrompt
    <3>2. prompt'[id] = [prompt[id] EXCEPT !.chains = @ \cup call[c].chains]
      BY <1>1, <2>1, <2>2 DEF TypeOK
    <3>. QED
      BY <1>1, <3>1, <3>2 DEF PromptRecords, CallRecords
  <2>4. prompt' \in [Ids -> PromptRecords]
    BY <1>1, <2>1, <2>2, <2>3 DEF TypeOK
  <2>5. /\ call'[c] = [call[c] EXCEPT !.st = "prompted", !.id = id]
        /\ \A d \in Calls : d # c => call'[d] = call[d]
        /\ call' = [call EXCEPT ![c] = call'[c]]
    BY <1>2, <2>1
  <2>6. id \in 0 .. MaxIds
    BY <2>1, <2>2, LimitAssumption DEF Ids
  <2>7. /\ call'[c] \in CallRecords
        /\ call'[c].st = "prompted"
        /\ call'[c].method = call[c].method /\ call'[c].origin = call[c].origin
        /\ call'[c].signer = call[c].signer
    <3>1. "prompted" \in Stages
      BY DEF Stages
    <3>. QED
      BY <1>1, <2>5, <2>6, <3>1 DEF CallRecords
  <2>8. call' \in [Calls -> CallRecords]
    BY <1>2, <2>5, <2>7
  <2>9. CallInv(c)'
    BY <1>1, <1>15, <2>7 DEF CallInv, JoinPrompt, Prompting
  <2>. QED
    BY <1>1, <1>15, <2>3, <2>4, <2>5, <2>8, <2>9 DEF TypeOK, JoinPrompt
<1>16. CASE AskPrompt(c)
  <2>1. PICK id \in Ids :
          /\ Queue!Ask(id)
          /\ prompt' = [prompt EXCEPT ![id] = PromptFor(c)]
          /\ call' = [call EXCEPT ![c].st = "prompted", ![c].id = id]
    BY <1>16 DEF AskPrompt
  <2>2. PromptFor(c) \in PromptRecords
    BY <1>1, <1>16, PromptForType DEF AskPrompt, Prompting, CallInv, Methods
  <2>3. promise' \in [Ids -> {"none", "pending"} \cup Queue!Outcomes]
    BY <1>1, <2>1 DEF TypeOK, Queue!Ask
  <2>4. prompt' \in [Ids -> PromptRecords]
    BY <1>1, <2>1, <2>2, <2>3 DEF TypeOK
  <2>5. /\ call'[c] = [call[c] EXCEPT !.st = "prompted", !.id = id]
        /\ \A d \in Calls : d # c => call'[d] = call[d]
        /\ call' = [call EXCEPT ![c] = call'[c]]
    BY <1>2, <2>1
  <2>6. id \in 0 .. MaxIds
    BY <2>1, <2>2, LimitAssumption DEF Ids
  <2>7. /\ call'[c] \in CallRecords
        /\ call'[c].st = "prompted"
        /\ call'[c].method = call[c].method /\ call'[c].origin = call[c].origin
        /\ call'[c].signer = call[c].signer
    <3>1. "prompted" \in Stages
      BY DEF Stages
    <3>. QED
      BY <1>1, <2>5, <2>6, <3>1 DEF CallRecords
  <2>8. call' \in [Calls -> CallRecords]
    BY <1>2, <2>5, <2>7
  <2>9. CallInv(c)'
    BY <1>1, <1>16, <2>7 DEF CallInv, AskPrompt, Prompting
  <2>. QED
    BY <1>1, <1>16, <2>3, <2>4, <2>5, <2>8, <2>9 DEF TypeOK, AskPrompt
<1>. QED
  BY <1>3, <1>4, <1>5, <1>6, <1>7, <1>8, <1>9, <1>10, <1>11, <1>12, <1>13, <1>14, <1>15, <1>16 DEF Progress

\* Answers of the unlock wait, and a worker stop, move calls to other stages.
LEMMA WaitTypes ==
  ASSUME IInv, \/ call' = Resumed
               \/ call' = [c \in Calls |-> IF c \in Waiters
                             THEN [call[c] EXCEPT !.st = "failed"] ELSE call[c]]
               \/ call' = [c \in Calls |-> IF call[c].st \in Ended \cup {"new"}
                             THEN call[c] ELSE [call[c] EXCEPT !.st = "lost"]]
  PROVE  /\ call' \in [Calls -> CallRecords]
         /\ \A c \in Calls : CallInv(c)'
<1>1. SUFFICES ASSUME NEW c \in Calls
               PROVE  call'[c] \in CallRecords /\ CallInv(c)'
  BY DEF Resumed
<1>2. call[c] \in CallRecords /\ CallInv(c)
  BY DEF IInv, TypeOK
<1>3. \/ call'[c] = call[c]
      \/ call[c].st = "waiting" /\ call'[c] = [call[c] EXCEPT !.st = "permission", !.retry = TRUE]
         /\ call[c].method = "enable"
      \/ call[c].st = "waiting" /\ call'[c] = [call[c] EXCEPT !.st = "phrase", !.retry = TRUE]
         /\ call[c].method # "enable"
      \/ call[c].st # "new" /\ call'[c] = [call[c] EXCEPT !.st = "failed"]
      \/ call[c].st # "new" /\ call'[c] = [call[c] EXCEPT !.st = "lost"]
  BY DEF Resumed, Waiters
<1>4. CASE call'[c] = call[c]
  BY <1>2, <1>4 DEF CallInv
<1>5. CASE call[c].st = "waiting" /\ call'[c] = [call[c] EXCEPT !.st = "permission", !.retry = TRUE]
           /\ call[c].method = "enable"
  BY <1>2, <1>5 DEF CallRecords, CallInv, Stages
<1>6. CASE call[c].st = "waiting" /\ call'[c] = [call[c] EXCEPT !.st = "phrase", !.retry = TRUE]
           /\ call[c].method # "enable"
  BY <1>2, <1>6 DEF CallRecords, CallInv, Stages
<1>7. CASE call[c].st # "new" /\ call'[c] = [call[c] EXCEPT !.st = "failed"]
  BY <1>2, <1>7 DEF CallRecords, CallInv, Stages
<1>8. CASE call[c].st # "new" /\ call'[c] = [call[c] EXCEPT !.st = "lost"]
  BY <1>2, <1>8 DEF CallRecords, CallInv, Stages
<1>. QED
  BY <1>3, <1>4, <1>5, <1>6, <1>7, <1>8

\* Steps of the user, of the unlock wait and of the rest of the wallet.
Aside ==
  \/ \E id \in Ids : SurfaceShows(id) \/ UserApproves(id) \/ PromptRejected(id)
  \/ WaitStarts \/ Unlock \/ WaitFindsUnlocked \/ WaitFails
  \/ LockRemoves \/ LockClears
  \/ \E a \in Accounts : SwitchAccount(a)
  \/ \E o \in Origins, cs \in SUBSET Chains : Revoke(o, cs)
  \/ WorkerStops

\* They keep types and stages.
LEMMA AsideTypes ==
  ASSUME IInv, Aside
  PROVE  TypeOK' /\ \A c \in Calls : CallInv(c)'
<1>. USE DEF promptVars, walletVars
<1>1. TypeOK /\ \A c \in Calls : CallInv(c)
  BY DEF IInv
<1>2. ASSUME call' = call PROVE \A c \in Calls : CallInv(c)'
  BY <1>1, <1>2 DEF CallInv
<1>3. ASSUME NEW id \in Ids, SurfaceShows(id) PROVE TypeOK' /\ call' = call
  <2>1. prompt[id].kind # "sign" => prompt[id].chains \in SUBSET Chains
    <3>1. prompt[id] \in PromptRecords /\ prompt[id] # NoPrompt
      BY <1>1, <1>3 DEF TypeOK, SurfaceShows, IInv, AskedInv, Queue!Waiting, Queue!Ids, Ids
    <3>. QED
      BY <3>1 DEF PromptRecords
  <2>. QED
    BY <1>1, <1>3, <2>1 DEF TypeOK, SurfaceShows
<1>4. ASSUME NEW id \in Ids, UserApproves(id) PROVE TypeOK' /\ call' = call
  BY <1>1, <1>4, AnswerTypes DEF TypeOK, UserApproves, Queue!Outcomes
<1>5. ASSUME NEW id \in Ids, PromptRejected(id) PROVE TypeOK' /\ call' = call
  BY <1>1, <1>5, AnswerTypes DEF TypeOK, PromptRejected, Queue!Outcomes
<1>6. CASE Unlock
  <2>1. CASE listening
    BY <1>1, <1>6, <2>1, WaitTypes, WalletAssumption DEF TypeOK, Unlock
  <2>2. CASE ~ listening
    BY <1>1, <1>2, <1>6, <2>2, WalletAssumption DEF TypeOK, Unlock
  <2>. QED
    BY <2>1, <2>2
<1>7. CASE WaitFindsUnlocked
  BY <1>1, <1>7, WaitTypes DEF TypeOK, WaitFindsUnlocked
<1>8. CASE WaitFails
  BY <1>1, <1>8, WaitTypes DEF TypeOK, WaitFails
<1>9. CASE LockRemoves
  BY <1>1, <1>2, <1>9, WalletAssumption DEF TypeOK, LockRemoves
<1>10. CASE LockClears
  BY <1>1, <1>2, <1>10, AnswerTypes DEF TypeOK, LockClears, Queue!Outcomes
<1>11. ASSUME NEW a \in Accounts, SwitchAccount(a) PROVE TypeOK' /\ call' = call
  BY <1>1, <1>11, WalletAssumption DEF TypeOK, SwitchAccount
<1>12. ASSUME NEW o \in Origins, NEW cs \in SUBSET Chains, Revoke(o, cs)
       PROVE  TypeOK' /\ call' = call
  BY <1>1, <1>12 DEF TypeOK, Revoke
<1>13. CASE WorkerStops
  BY <1>1, <1>13, WaitTypes, AnswerTypes DEF TypeOK, WorkerStops, Queue!Outcomes
<1>14. CASE WaitStarts
  BY <1>1, <1>2, <1>14 DEF TypeOK, WaitStarts
<1>. QED
  BY <1>2, <1>3, <1>4, <1>5, <1>6, <1>7, <1>8, <1>9, <1>10, <1>11, <1>12, <1>13, <1>14
     DEF Aside

-----------------------------------------------------------------------------
(* Steps that ask nothing *)

\* Steps of a call between its prompts.
Quiet(c) ==
  \/ Request(c)
  \/ EnableStarts(c) \/ EnableChecks(c) \/ PermissionChecked(c) \/ PhraseRead(c)
  \/ KeyRead(c) \/ SuggestStarts(c) \/ QueueFull(c)
  \/ AnswerArrives(c) \/ Granted(c) \/ PhraseReread(c) \/ KeyReread(c)

\* What a call asked for.
SameRequest(c) ==
  /\ call'[c].id = call[c].id
  /\ call'[c].method = call[c].method
  /\ call'[c].origin = call[c].origin
  /\ call'[c].chains = call[c].chains
  /\ call'[c].signer = call[c].signer

\* A call that holds a prompt after the step held it before, for the same request,
\* and what it knew of the answer is so; a signature is made by KeyReread only.
CallKeeps(c) ==
  /\ Holds(c)' => /\ Holds(c) /\ SameRequest(c)
                  /\ call'[c].st # "prompted" => promise[call[c].id] = "approved"
  /\ KeyInv(c)'

\* A quiet step keeps its call's prompt.
LEMMA QuietKeeps ==
  ASSUME IInv, NEW c \in Calls, Quiet(c)
  PROVE  CallKeeps(c) /\ promise' = promise /\ prompt' = prompt
<1>. USE DEF promptVars, walletVars
<1>1. call[c] \in CallRecords /\ CallInv(c) /\ PromptInv(c) /\ KeyInv(c)
      /\ call \in [Calls -> CallRecords]
  BY DEF IInv, TypeOK
<1>. USE DEF CallKeeps, SameRequest, Holds, Signed, KeyInv
<1>2. CASE Request(c)
  <2>1. call'[c].st = "asked"
    BY <1>1, <1>2 DEF Request, Asked, NewCall
  <2>. QED
    BY <1>2, <2>1 DEF Request
<1>3. CASE EnableStarts(c)
  BY <1>1, <1>3 DEF EnableStarts, Goes, CallRecords, CallInv, PromptInv
<1>4. CASE EnableChecks(c)
  BY <1>1, <1>4 DEF EnableChecks, Goes, CallRecords, CallInv, PromptInv
<1>5. CASE PermissionChecked(c)
  BY <1>1, <1>5 DEF PermissionChecked, Goes, CallRecords, CallInv, PromptInv
<1>6. CASE PhraseRead(c)
  BY <1>1, <1>6 DEF PhraseRead, Goes, CallRecords, CallInv, PromptInv
<1>7. CASE KeyRead(c)
  BY <1>1, <1>7 DEF KeyRead, Goes, CallRecords, CallInv, PromptInv
<1>8. CASE SuggestStarts(c)
  BY <1>1, <1>8 DEF SuggestStarts, Goes, CallRecords, CallInv, PromptInv
<1>9. CASE QueueFull(c)
  BY <1>1, <1>9 DEF QueueFull, Goes, CallRecords, CallInv, PromptInv, Prompting
<1>10. CASE AnswerArrives(c)
  BY <1>1, <1>10 DEF AnswerArrives, Goes, CallRecords, CallInv, PromptInv
<1>11. CASE Granted(c)
  BY <1>1, <1>11 DEF Granted, Goes, CallRecords, CallInv, PromptInv
<1>12. CASE PhraseReread(c)
  BY <1>1, <1>12 DEF PhraseReread, Goes, CallRecords, CallInv, PromptInv
<1>13. CASE KeyReread(c)
  BY <1>1, <1>13 DEF KeyReread, Goes, CallRecords, CallInv, PromptInv
<1>. QED
  BY <1>2, <1>3, <1>4, <1>5, <1>6, <1>7, <1>8, <1>9, <1>10, <1>11, <1>12, <1>13 DEF Quiet

\* A call that does not move keeps its prompt.
LEMMA StillKeeps ==
  ASSUME IInv, NEW c \in Calls, call'[c] = call[c]
  PROVE  CallKeeps(c)
  BY DEF IInv, CallKeeps, SameRequest, Holds, Signed, KeyInv, PromptInv

\* Answers are for good and prompts keep their slots.
PromisesKept ==
  \A id \in Ids : /\ promise[id] = "approved" => promise'[id] = "approved"
                  /\ promise'[id] = "none" <=> promise[id] = "none"
                  /\ promise'[id] = "pending" => promise[id] = "pending"

\* Steps aside of the calls keep the calls' prompts.
LEMMA AsideKeeps ==
  ASSUME IInv, Aside
  PROVE  (\A c \in Calls : CallKeeps(c)) /\ PromisesKept /\ prompt' = prompt
<1>. USE DEF promptVars, walletVars
<1>1. TypeOK
  BY DEF IInv
<1>2. prompt' = prompt
  BY DEF Aside, SurfaceShows, UserApproves, PromptRejected, WaitStarts, Unlock, WaitFindsUnlocked,
         WaitFails, LockRemoves, LockClears, SwitchAccount, Revoke, WorkerStops
<1>3. PromisesKept
  <2>1. CASE promise' = promise
    BY <2>1 DEF PromisesKept
  <2>2. ASSUME NEW S, NEW outcome \in Queue!Outcomes, Queue!Answer(S, outcome)
        PROVE  PromisesKept
    BY <1>1, <2>2 DEF PromisesKept, Queue!Answer, Queue!Waiting, Queue!Ids, Ids, TypeOK,
                      Queue!Outcomes
  <2>. QED
    BY <2>1, <2>2 DEF Aside, SurfaceShows, UserApproves, PromptRejected, WaitStarts, Unlock,
         WaitFindsUnlocked, WaitFails, LockRemoves, LockClears, SwitchAccount, Revoke,
         WorkerStops, Queue!Outcomes
<1>4. ASSUME NEW c \in Calls PROVE CallKeeps(c)
  <2>1. CASE call'[c] = call[c]
    BY <2>1, StillKeeps
  <2>2. CASE call'[c].st \in {"permission", "phrase", "failed", "lost"}
    BY <2>2 DEF CallKeeps, Holds, Signed, KeyInv
  <2>3. call'[c] = call[c] \/ call'[c].st \in {"permission", "phrase", "failed", "lost"}
    <3>1. call[c] \in CallRecords /\ call \in [Calls -> CallRecords]
      BY <1>1 DEF TypeOK
    <3>2. CASE call' = Resumed
      BY <3>1, <3>2 DEF Resumed, CallRecords
    <3>3. CASE WaitFails
      BY <3>1, <3>3 DEF WaitFails, CallRecords
    <3>4. CASE WorkerStops
      BY <3>1, <3>4 DEF WorkerStops, CallRecords
    <3>5. CASE call' = call
      BY <3>5
    <3>. QED
      BY <3>2, <3>3, <3>4, <3>5 DEF Aside, SurfaceShows, UserApproves, PromptRejected,
         WaitStarts, Unlock, WaitFindsUnlocked, LockRemoves, LockClears, SwitchAccount, Revoke
  <2>. QED
    BY <2>1, <2>2, <2>3
<1>. QED
  BY <1>2, <1>3, <1>4

\* If every call keeps its prompt, the prompts are still those of the calls.
LEMMA KeptPrompts ==
  ASSUME IInv, \A c \in Calls : CallKeeps(c), PromisesKept, prompt' = prompt
  PROVE  /\ \A c \in Calls : PromptInv(c)' /\ KeyInv(c)'
         /\ JoinInv' /\ AskedInv'
<1>1. ASSUME NEW c \in Calls, Holds(c)' PROVE PromptInv(c)'
  <2>1. Holds(c) /\ SameRequest(c) /\ PromptInv(c)
        /\ (call'[c].st # "prompted" => promise[call[c].id] = "approved")
    BY <1>1 DEF IInv, CallKeeps
  <2>2. \A d \in Calls : Holds(d)' => Holds(d) /\ call'[d].id = call[d].id
    BY DEF CallKeeps, SameRequest
  <2>3. \A d \in Calls : call[c].method = "sign" /\ Holds(d) /\ call[d].id = call[c].id => d = c
    BY <2>1 DEF PromptInv
  <2>4. call[c].id \in Ids /\ promise'[call[c].id] # "none"
        /\ (call'[c].st # "prompted" => promise'[call[c].id] = "approved")
    BY <2>1 DEF PromptInv, PromisesKept
  <2>. QED
    BY <2>1, <2>2, <2>3, <2>4 DEF PromptInv, SameRequest
<1>2. \A c \in Calls : PromptInv(c)' /\ KeyInv(c)'
  BY <1>1 DEF PromptInv, CallKeeps
<1>3. JoinInv'
  BY DEF IInv, JoinInv, Joinable, PromisesKept, Queue!Waiting, Queue!Ids, Ids
<1>4. AskedInv'
  BY DEF IInv, AskedInv, PromisesKept
<1>. QED
  BY <1>2, <1>3, <1>4

-----------------------------------------------------------------------------
(* Steps that ask *)

\* Joining a prompt that is up keeps it the prompt of all its calls.
LEMMA JoinPrompts ==
  ASSUME IInv, NEW c \in Calls, JoinPrompt(c)
  PROVE  /\ \A d \in Calls : PromptInv(d)' /\ KeyInv(d)'
         /\ JoinInv' /\ AskedInv'
         /\ \A id \in Ids : promise[id] = "approved" => prompt'[id] = prompt[id]
<1>1. PICK id \in Joinable(call[c].origin) :
        /\ prompt' = [prompt EXCEPT ![id].chains = @ \cup call[c].chains]
        /\ call' = [call EXCEPT ![c].st = "prompted", ![c].id = id]
  BY DEF JoinPrompt
<1>2. /\ call \in [Calls -> CallRecords] /\ prompt \in [Ids -> PromptRecords]
      /\ call[c] \in CallRecords
      /\ call[c].method = "enable" /\ promise' = promise
  BY DEF IInv, TypeOK, JoinPrompt
<1>3. id \in Ids /\ promise[id] = "pending" /\ prompt[id].kind = "enable"
      /\ prompt[id].origin = call[c].origin /\ prompt[id] \in PromptRecords
  BY <1>1, <1>2 DEF Joinable, Queue!Waiting, Queue!Ids, Ids
<1>4. prompt[id] \in [kind : {"enable", "suggest"}, origin : Origins, chains : SUBSET Chains]
  BY <1>3 DEF PromptRecords, NoPrompt
<1>5. /\ prompt'[id].kind = "enable" /\ prompt'[id].origin = prompt[id].origin
      /\ prompt[id].chains \subseteq prompt'[id].chains
      /\ call[c].chains \subseteq prompt'[id].chains
      /\ \A other \in Ids : other # id => prompt'[other] = prompt[other]
  BY <1>1, <1>2, <1>3, <1>4
<1>6. /\ call'[c].st = "prompted" /\ call'[c].id = id /\ call'[c].method = "enable"
      /\ call'[c].origin = call[c].origin /\ call'[c].chains = call[c].chains
      /\ \A d \in Calls : d # c => call'[d] = call[d]
  BY <1>1, <1>2 DEF CallRecords
<1>7. ASSUME NEW d \in Calls PROVE PromptInv(d)' /\ KeyInv(d)'
  <2>1. CASE d = c
    BY <1>2, <1>3, <1>5, <1>6, <2>1 DEF PromptInv, KeyInv, Signed, Holds
  <2>2. CASE d # c
    <3>1. PromptInv(d) /\ KeyInv(d) /\ call'[d] = call[d]
      BY <1>6, <2>2 DEF IInv
    <3>2. KeyInv(d)'
      BY <3>1 DEF KeyInv, Signed
    <3>3. SUFFICES ASSUME Holds(d) PROVE PromptInv(d)'
      BY <3>1, <3>2 DEF PromptInv, Holds, Signed
    <3>4. call[d].method = "sign" => call[d].id # id
      BY <1>3, <3>1, <3>3 DEF PromptInv, SignPrompt
    <3>5. call[d].method = "sign" =>
            \A e \in Calls : Holds(e)' /\ call'[e].id = call[d].id => e = d
      BY <1>6, <3>1, <3>3, <3>4 DEF PromptInv, Holds, Signed
    <3>6. CASE call[d].id = id
      BY <1>2, <1>5, <3>1, <3>3, <3>4, <3>5, <3>6 DEF PromptInv
    <3>7. CASE call[d].id # id
      BY <1>2, <1>5, <3>1, <3>3, <3>5, <3>7 DEF PromptInv
    <3>. QED
      BY <3>6, <3>7
  <2>. QED
    BY <2>1, <2>2
<1>8. JoinInv'
  <2>1. \A o \in Origins : Joinable(o)' \subseteq Joinable(o)
    BY <1>2, <1>3, <1>5 DEF Joinable, Queue!Waiting, Queue!Ids, Ids
  <2>. QED
    BY <2>1 DEF IInv, JoinInv
<1>9. AskedInv'
  BY <1>2, <1>3, <1>5 DEF IInv, AskedInv, NoPrompt
<1>10. \A other \in Ids : promise[other] = "approved" => prompt'[other] = prompt[other]
  BY <1>3, <1>5
<1>. QED
  BY <1>7, <1>8, <1>9, <1>10

\* A new prompt takes a slot no call holds.
LEMMA AskPrompts ==
  ASSUME IInv, NEW c \in Calls, AskPrompt(c)
  PROVE  /\ \A d \in Calls : PromptInv(d)' /\ KeyInv(d)'
         /\ JoinInv' /\ AskedInv'
         /\ \A id \in Ids : promise[id] = "approved" =>
              promise'[id] = "approved" /\ prompt'[id] = prompt[id]
<1>1. PICK id \in Ids :
        /\ Queue!Ask(id)
        /\ prompt' = [prompt EXCEPT ![id] = PromptFor(c)]
        /\ call' = [call EXCEPT ![c].st = "prompted", ![c].id = id]
  BY DEF AskPrompt
<1>2. /\ call \in [Calls -> CallRecords] /\ prompt \in [Ids -> PromptRecords]
      /\ call[c] \in CallRecords /\ CallInv(c) /\ TypeOK
      /\ promise \in [Ids -> {"none", "pending"} \cup Queue!Outcomes]
  BY DEF IInv, TypeOK
<1>3. promise[id] = "none" /\ promise' = [promise EXCEPT ![id] = "pending"]
  BY <1>1 DEF Queue!Ask
<1>4. /\ prompt'[id] = PromptFor(c) /\ promise'[id] = "pending"
      /\ \A other \in Ids : other # id =>
           prompt'[other] = prompt[other] /\ promise'[other] = promise[other]
  BY <1>1, <1>2, <1>3
<1>5. /\ call'[c].st = "prompted" /\ call'[c].id = id
      /\ call'[c].method = call[c].method /\ call'[c].origin = call[c].origin
      /\ call'[c].chains = call[c].chains /\ call'[c].signer = call[c].signer
      /\ \A d \in Calls : d # c => call'[d] = call[d]
  BY <1>1, <1>2 DEF CallRecords
<1>6. /\ call[c].st = "prompting" /\ call[c].method \in {"enable", "suggest", "sign"}
      /\ call[c].method = "enable" => Joinable(call[c].origin) = {}
  BY <1>2 DEF AskPrompt, Prompting, CallInv, Methods
<1>7. \A d \in Calls : d # c /\ Holds(d) => call[d].id \in Ids /\ call[d].id # id
  BY <1>3 DEF IInv, PromptInv
<1>8. ASSUME NEW d \in Calls PROVE PromptInv(d)' /\ KeyInv(d)'
  <2>1. CASE d = c
    <3>1. KeyInv(d)'
      BY <1>5, <2>1 DEF KeyInv, Signed
    <3>2. call[c].method = "sign" => PromptFor(c) = SignPrompt(call[c].origin, call[c].signer)
      BY DEF PromptFor
    <3>3. call[c].method = "enable" => PromptFor(c) = EnablePrompt(call[c].origin, call[c].chains)
      BY DEF PromptFor
    <3>4. \A e \in Calls : Holds(e)' /\ call'[e].id = id => e = c
      BY <1>5, <1>7 DEF Holds, Signed
    <3>. QED
      BY <1>4, <1>5, <2>1, <3>1, <3>2, <3>3, <3>4 DEF PromptInv, EnablePrompt
  <2>2. CASE d # c
    <3>1. PromptInv(d) /\ KeyInv(d) /\ call'[d] = call[d]
      BY <1>5, <2>2 DEF IInv
    <3>2. KeyInv(d)'
      BY <3>1 DEF KeyInv, Signed
    <3>3. SUFFICES ASSUME Holds(d) PROVE PromptInv(d)'
      BY <3>1, <3>2 DEF PromptInv, Holds, Signed
    <3>4. \A e \in Calls : Holds(e)' /\ call'[e].id = call[d].id => Holds(e) /\ call[e].id = call[d].id
      BY <1>5, <1>7, <2>2, <3>3 DEF Holds, Signed
    <3>. QED
      BY <1>4, <1>7, <2>2, <3>1, <3>3, <3>4 DEF PromptInv
  <2>. QED
    BY <2>1, <2>2
<1>9. JoinInv'
  <2>. SUFFICES ASSUME NEW o \in Origins, NEW i \in Joinable(o)', NEW j \in Joinable(o)'
                PROVE  i = j
    BY DEF JoinInv
  <2>1. \A k \in Joinable(o)' : k # id => k \in Joinable(o)
    BY <1>4 DEF Joinable, Queue!Waiting, Queue!Ids, Ids
  <2>2. id \in Joinable(o)' => call[c].method = "enable" /\ call[c].origin = o
    BY <1>4, <1>6 DEF Joinable, PromptFor, EnablePrompt, SignPrompt, SuggestPrompt
  <2>. QED
    BY <1>6, <2>1, <2>2 DEF IInv, JoinInv
<1>10. AskedInv'
  <2>1. PromptFor(c) # NoPrompt
    BY <1>6 DEF PromptFor, EnablePrompt, SignPrompt, SuggestPrompt, NoPrompt
  <2>. QED
    BY <1>4, <2>1 DEF IInv, AskedInv
<1>. QED
  BY <1>3, <1>4, <1>8, <1>9, <1>10

-----------------------------------------------------------------------------
(* Grants *)

\* Prompts that were approved stay as they were approved.
LEMMA GrantsKept ==
  ASSUME IInv, \A o \in Origins : grants'[o] \subseteq grants[o],
         \A id \in Ids : promise[id] = "approved" =>
           promise'[id] = "approved" /\ prompt'[id] = prompt[id]
  PROVE  GrantsWereApproved'
  BY DEF IInv, GrantsWereApproved

\* A grant is of a call that holds an approved prompt.
LEMMA GrantedApproved ==
  ASSUME IInv, NEW c \in Calls, Granted(c)
  PROVE  GrantsWereApproved'
<1>1. promise' = promise /\ prompt' = prompt
  BY DEF Granted, promptVars
<1>2. CASE call[c].method = "enable"
  <2>1. /\ call[c].id \in Ids /\ promise[call[c].id] = "approved"
        /\ prompt[call[c].id].kind = "enable"
        /\ prompt[call[c].id].origin = call[c].origin
        /\ call[c].chains \subseteq prompt[call[c].id].chains
    BY <1>2 DEF IInv, PromptInv, Holds, Granted
  <2>2. \A o \in Origins : grants'[o] \subseteq
          IF o = call[c].origin THEN grants[o] \cup call[c].chains ELSE grants[o]
    BY <1>2 DEF Granted, IInv, TypeOK
  <2>. QED
    BY <1>1, <2>1, <2>2 DEF IInv, GrantsWereApproved
<1>3. CASE call[c].method # "enable"
  BY <1>1, <1>3, GrantsKept DEF Granted
<1>. QED
  BY <1>2, <1>3

-----------------------------------------------------------------------------
(* Theorems *)

\* Every step keeps the inductive invariant.
LEMMA StepIInv == IInv /\ [Next]_vars => IInv'
<1>. SUFFICES ASSUME IInv, [Next]_vars PROVE IInv'
  OBVIOUS
<1>1. ASSUME NEW c \in Calls, Quiet(c) PROVE IInv'
  <2>1. Request(c) \/ Progress(c)
    BY <1>1 DEF Quiet, Progress
  <2>2. TypeOK' /\ CallInv(c)' /\ \A d \in Calls : d # c => call'[d] = call[d]
    BY <2>1, ProgressTypes
  <2>3. \A d \in Calls : CallInv(d)'
    BY <2>2 DEF IInv, CallInv
  <2>4. promise' = promise /\ prompt' = prompt /\ \A d \in Calls : CallKeeps(d)
    BY <1>1, <2>2, QuietKeeps, StillKeeps
  <2>5. PromisesKept
    BY <2>4 DEF PromisesKept
  <2>6. GrantsWereApproved'
    <3>1. CASE Granted(c)
      BY <3>1, GrantedApproved
    <3>2. CASE ~ Granted(c)
      <4>1. grants' = grants
        BY <1>1, <3>2 DEF Quiet, walletVars, Request, EnableStarts, EnableChecks,
             PermissionChecked, PhraseRead, KeyRead, SuggestStarts, QueueFull,
             AnswerArrives, PhraseReread, KeyReread
      <4>. QED
        BY <2>4, <4>1, GrantsKept
    <3>. QED
      BY <3>1, <3>2
  <2>. QED
    BY <2>2, <2>3, <2>4, <2>5, <2>6, KeptPrompts DEF IInv
<1>2. ASSUME NEW c \in Calls, JoinPrompt(c) PROVE IInv'
  <2>1. TypeOK' /\ CallInv(c)' /\ \A d \in Calls : d # c => call'[d] = call[d]
    BY <1>2, ProgressTypes DEF Progress
  <2>2. \A d \in Calls : CallInv(d)'
    BY <2>1 DEF IInv, CallInv
  <2>3. promise' = promise /\ grants' = grants
    BY <1>2 DEF JoinPrompt, walletVars
  <2>4. GrantsWereApproved'
    BY <1>2, <2>3, JoinPrompts, GrantsKept
  <2>. QED
    BY <1>2, <2>1, <2>2, <2>4, JoinPrompts DEF IInv
<1>3. ASSUME NEW c \in Calls, AskPrompt(c) PROVE IInv'
  <2>1. TypeOK' /\ CallInv(c)' /\ \A d \in Calls : d # c => call'[d] = call[d]
    BY <1>3, ProgressTypes DEF Progress
  <2>2. \A d \in Calls : CallInv(d)'
    BY <2>1 DEF IInv, CallInv
  <2>3. grants' = grants
    BY <1>3 DEF AskPrompt, walletVars
  <2>4. GrantsWereApproved'
    BY <1>3, <2>3, AskPrompts, GrantsKept
  <2>. QED
    BY <1>3, <2>1, <2>2, <2>4, AskPrompts DEF IInv
<1>4. CASE Aside
  <2>1. \A o \in Origins : grants'[o] \subseteq grants[o]
    <3>1. grants \in [Origins -> SUBSET Chains]
      BY DEF IInv, TypeOK
    <3>2. ASSUME NEW r \in Origins, NEW cs \in SUBSET Chains, Revoke(r, cs)
          PROVE  \A o \in Origins : grants'[o] \subseteq grants[o]
      BY <3>1, <3>2 DEF Revoke
    <3>3. CASE grants' = grants
      BY <3>3
    <3>. QED
      BY <1>4, <3>2, <3>3 DEF Aside, SurfaceShows, UserApproves, PromptRejected, WaitStarts, Unlock,
           WaitFindsUnlocked, WaitFails, LockRemoves, LockClears, SwitchAccount,
           WorkerStops, walletVars
  <2>2. (\A c \in Calls : CallKeeps(c)) /\ PromisesKept /\ prompt' = prompt
    BY <1>4, AsideKeeps
  <2>3. GrantsWereApproved'
    BY <2>1, <2>2, GrantsKept DEF PromisesKept
  <2>4. TypeOK' /\ \A c \in Calls : CallInv(c)'
    BY <1>4, AsideTypes
  <2>. QED
    BY <2>2, <2>3, <2>4, KeptPrompts DEF IInv
<1>5. CASE UNCHANGED vars
  <2>1. PromisesKept /\ prompt' = prompt /\ call' = call /\ grants' = grants
    BY <1>5 DEF vars, promptVars, walletVars, PromisesKept
  <2>2. (\A c \in Calls : CallKeeps(c)) /\ GrantsWereApproved'
    BY <2>1, StillKeeps, GrantsKept DEF PromisesKept
  <2>3. TypeOK'
    BY <1>5 DEF IInv, TypeOK, vars, promptVars, walletVars
  <2>4. \A c \in Calls : CallInv(c)'
    BY <2>1 DEF IInv, CallInv
  <2>. QED
    BY <2>1, <2>2, <2>3, <2>4, KeptPrompts DEF IInv
<1>. QED
  BY <1>1, <1>2, <1>3, <1>4, <1>5 DEF Next, Progress, Quiet, Aside

\* The inductive invariant holds of every behaviour.
THEOREM Inductive == Spec => []IInv
  BY InitIInv, StepIInv, PTL DEF Spec

\* The state of the calls, of their prompts and of the wallet has its types.
THEOREM TypeCorrect == Spec => []TypeOK
<1>1. IInv => TypeOK
  BY DEF IInv
<1>. QED
  BY <1>1, Inductive, PTL

\* However many calls run at once, whatever locks, unlocks and account switches come
\* between their steps: what is signed was approved, for that site and that signer,
\* by the key of the row it was shown with, and once.
THEOREM SigningIsApproved == Spec => []SignedAsShown
<1>1. IInv => SignedAsShown
  BY DEF IInv, SignedAsShown, PromptInv, KeyInv, Signed, Holds
<1>. QED
  BY <1>1, Inductive, PTL

\* However many calls share their prompts, a site may use only what approved
\* connection prompts of that site listed.
THEOREM GrantsAreApproved == Spec => []GrantsWereApproved
<1>1. IInv => GrantsWereApproved
  BY DEF IInv
<1>. QED
  BY <1>1, Inductive, PTL

\* A site never has two connection prompts up.
THEOREM PromptsAreShared == Spec => []OnePromptPerSite
<1>1. ASSUME IInv, NEW o \in Origins PROVE Cardinality(Joinable(o)) <= 1
  <2>1. CASE Joinable(o) = {}
    BY <2>1, FS_EmptySet
  <2>2. ASSUME NEW id \in Joinable(o) PROVE Cardinality(Joinable(o)) <= 1
    <3>1. Joinable(o) = {id}
      BY <1>1, <2>2 DEF IInv, JoinInv
    <3>. QED
      BY <3>1, FS_Singleton
  <2>. QED
    BY <2>1, <2>2
<1>2. IInv => OnePromptPerSite
  BY <1>1 DEF OnePromptPerSite
<1>. QED
  BY <1>2, Inductive, PTL
=============================================================================
