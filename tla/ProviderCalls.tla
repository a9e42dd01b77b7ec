---------------------------- MODULE ProviderCalls ----------------------------
(***************************************************************************)
(* Calls a page makes to the wallet (lib/provider-handler.ts), as they run  *)
(* side by side in the worker.  Between two steps of a call come storage    *)
(* reads that are not atomic together, a wait for the user to unlock, and a *)
(* prompt; meanwhile the wallet locks, the user switches accounts, the site *)
(* is revoked and other calls ask, join or answer.                          *)
(*                                                                         *)
(* Prompts are those of module Prompts, which Approvals implements.  An     *)
(* origin stands for one site in one tab.                                   *)
(***************************************************************************)
EXTENDS Naturals, FiniteSets

CONSTANTS Calls,      \* calls in flight, each made once
          Origins, Chains,
          Builtin,    \* chains the wallet knows without being told
          Accounts,   \* rows of the account list
          Main,       \* the row an unlock makes active
          Phrases, PhraseOf,  \* each account's recovery phrase ...
          Paths, PathOf,      \* ... and derivation index on it
          MaxPending, MaxIds

ASSUME WalletAssumption ==
  /\ Main \in Accounts
  /\ PhraseOf \in [Accounts -> Phrases]
  /\ PathOf \in [Accounts -> Paths]
ASSUME ChainAssumption == Builtin \subseteq Chains
ASSUME LimitAssumption == MaxPending \in Nat /\ MaxIds \in Nat

NoPhrase == "no phrase"
ASSUME NoPhraseAssumption == NoPhrase \notin Phrases

VARIABLES
  call,     \* each call: its arguments, where it stands and what it has read
  promise,  \* prompts and their answers (Prompts)
  prompt,   \* what each prompt asks
  shown,    \* the chains of each prompt on the surface the user looks at
  session,  \* phrase and active row in storage.session
  listening, \* unlockWait: a wait for the unlock is set up
  clearing, \* lockWallet has removed the session and is about to clear prompts
  grants,   \* chains each site may use
  known     \* chains in the catalog

Queue == INSTANCE Prompts

Ids == 1 .. MaxIds
Methods == {"enable", "getKey", "sign", "suggest"}
Addresses == Phrases \X Paths
\* activeKey: the row picks the path, whatever phrase was read before it.
Address(phrase, row) == <<phrase, PathOf[row]>>
Key(phrase, row) == [row |-> row, address |-> Address(phrase, row)]
Keys == [row : Accounts, address : Addresses]
NoRow == "no row"
NoAddress == <<NoPhrase, NoPhrase>>
NoKey == [row |-> NoRow, address |-> NoAddress]

NoPrompt == [kind |-> "none"]
EnablePrompt(o, cs) == [kind |-> "enable", origin |-> o, chains |-> cs]
SignPrompt(o, signer) == [kind |-> "sign", origin |-> o, signer |-> signer]
SuggestPrompt(o, cs) == [kind |-> "suggest", origin |-> o, chains |-> cs]

Stages == {"new", "asked", "waiting", "permission", "phrase", "active", "prompting",
           "prompted", "rephrase", "reactive", "granting", "done", "failed", "lost"}
Ended == {"done", "failed", "lost"}

NewCall == [st |-> "new", method |-> "none", origin |-> "none", chains |-> {},
            signer |-> NoAddress, retry |-> FALSE, phrase |-> NoPhrase,
            before |-> NoKey, key |-> NoKey, id |-> 0]

Init ==
  /\ call = [c \in Calls |-> NewCall]
  /\ Queue!Init
  /\ prompt = [id \in Ids |-> NoPrompt]
  /\ shown = [id \in Ids |-> {}]
  /\ session = [phrase |-> NoPhrase, active |-> Main]
  /\ listening = FALSE
  /\ clearing = FALSE
  /\ grants = [o \in Origins |-> {}]
  /\ known = Builtin

walletVars == <<session, listening, clearing, grants, known>>
promptVars == <<promise, prompt, shown>>
vars == <<call, promptVars, walletVars>>

Goes(c, st) == call' = [call EXCEPT ![c].st = st]

-----------------------------------------------------------------------------
(* Calls arrive *)

Asked(m, o, cs, s) ==
  [NewCall EXCEPT !.st = "asked", !.method = m, !.origin = o, !.chains = cs, !.signer = s]

Request(c) ==
  /\ call[c].st = "new"
  /\ \E m \in Methods, o \in Origins, cs \in SUBSET Chains \ {{}},
        s \in Addresses \cup {NoAddress} :
       /\ m # "enable" => Cardinality(cs) = 1
       /\ m = "sign" <=> s # NoAddress
       /\ call' = [call EXCEPT ![c] = Asked(m, o, cs, s)]
  /\ UNCHANGED <<promptVars, walletVars>>

\* enable: the catalog, then whether the wallet is locked.
EnableStarts(c) ==
  /\ call[c].st = "asked" /\ call[c].method = "enable"
  /\ Goes(c, IF ~ (call[c].chains \subseteq known) THEN "failed"
             ELSE IF session.phrase = NoPhrase THEN "waiting" ELSE "permission")
  /\ UNCHANGED <<promptVars, walletVars>>

\* enable: hasPermission.
EnableChecks(c) ==
  /\ call[c].st = "permission"
  /\ Goes(c, IF call[c].chains \subseteq grants[call[c].origin] THEN "done"
             ELSE "prompting")
  /\ UNCHANGED <<promptVars, walletVars>>

\* getKey, getAccounts and the signing methods: requirePermission.
PermissionChecked(c) ==
  /\ call[c].st = "asked" /\ call[c].method \in {"getKey", "sign"}
  /\ Goes(c, IF call[c].chains \subseteq grants[call[c].origin] THEN "phrase"
             ELSE "failed")
  /\ UNCHANGED <<promptVars, walletVars>>

\* unlockedMnemonic as a loop: wait again each time the wallet is found locked.
PhraseReadForever(c) ==
  /\ call[c].st = "phrase"
  /\ call' = [call EXCEPT
       ![c].phrase = session.phrase,
       ![c].st = IF session.phrase # NoPhrase THEN "active" ELSE "waiting"]
  /\ UNCHANGED <<promptVars, walletVars>>

\* unlockedMnemonic: read the phrase, wait for an unlock once, read it again.
PhraseRead(c) ==
  /\ call[c].st = "phrase"
  /\ call' = [call EXCEPT
       ![c].phrase = session.phrase,
       ![c].st = IF session.phrase # NoPhrase THEN "active"
                 ELSE IF call[c].retry THEN "failed" ELSE "waiting"]
  /\ UNCHANGED <<promptVars, walletVars>>

\* activeKey, a later read of the account list and the active row; then
\* assertSigner for a signature, or the answer to getKey.
KeyRead(c) ==
  LET key == Key(call[c].phrase, session.active)
  IN /\ call[c].st = "active"
     /\ call' = [call EXCEPT
          ![c].before = key,
          ![c].st = IF call[c].method = "getKey" THEN "done"
                    ELSE IF key.address = call[c].signer THEN "prompting" ELSE "failed"]
     /\ UNCHANGED <<promptVars, walletVars>>

\* experimentalSuggestChain: nothing to ask about a known chain.
SuggestStarts(c) ==
  /\ call[c].st = "asked" /\ call[c].method = "suggest"
  /\ Goes(c, IF call[c].chains \subseteq known THEN "done" ELSE "prompting")
  /\ UNCHANGED <<promptVars, walletVars>>

-----------------------------------------------------------------------------
(* Prompts *)

\* findPendingEnable
Joinable(o) == {id \in Queue!Waiting : prompt[id].kind = "enable" /\ prompt[id].origin = o}

\* enable without extendApprovalChains.
JoinPromptAsItIs(c) ==
  /\ call[c].st = "prompting" /\ call[c].method = "enable"
  /\ \E id \in Joinable(call[c].origin) :
       call' = [call EXCEPT ![c].st = "prompted", ![c].id = id]
  /\ UNCHANGED <<promptVars, walletVars>>

\* enable: share the prompt that is up, and add the chains to it.
JoinPrompt(c) ==
  /\ call[c].st = "prompting" /\ call[c].method = "enable"
  /\ \E id \in Joinable(call[c].origin) :
       /\ prompt' = [prompt EXCEPT ![id].chains = @ \cup call[c].chains]
       /\ call' = [call EXCEPT ![c].st = "prompted", ![c].id = id]
  /\ UNCHANGED <<promise, shown, walletVars>>

PromptFor(c) ==
  CASE call[c].method = "enable"  -> EnablePrompt(call[c].origin, call[c].chains)
    [] call[c].method = "suggest" -> SuggestPrompt(call[c].origin, call[c].chains)
    [] OTHER                      -> SignPrompt(call[c].origin, call[c].signer)

\* An await between findPendingEnable and enqueueApprovalWithId.
PromptingLate(c) == call[c].st = "prompting"

Prompting(c) ==
  /\ call[c].st = "prompting"
  /\ call[c].method = "enable" => Joinable(call[c].origin) = {}

AskPrompt(c) ==
  /\ Prompting(c)
  /\ \E id \in Ids :
       /\ Queue!Ask(id)
       /\ prompt' = [prompt EXCEPT ![id] = PromptFor(c)]
       /\ call' = [call EXCEPT ![c].st = "prompted", ![c].id = id]
  /\ UNCHANGED <<shown, walletVars>>

\* enqueueApprovalWithId throws: the queue is full.
QueueFull(c) ==
  /\ Prompting(c)
  /\ Cardinality(Queue!Waiting) >= MaxPending
  /\ Goes(c, "failed")
  /\ UNCHANGED <<promptVars, walletVars>>

\* A surface loads the queue, as it opens or when it hears of a change.
SurfaceShows(id) ==
  /\ id \in Queue!Waiting
  /\ shown' = [shown EXCEPT ![id] = IF prompt[id].kind = "sign" THEN Chains
                                    ELSE prompt[id].chains]
  /\ UNCHANGED <<call, promise, prompt, walletVars>>

UserApproves(id) ==
  /\ shown[id] # {}
  /\ id \in Queue!Waiting
  /\ Queue!Answer({id}, "approved")
  /\ UNCHANGED <<call, prompt, shown, walletVars>>

\* The user, the expiry timer, a closed tab or surface.
PromptRejected(id) ==
  /\ id \in Queue!Waiting
  /\ Queue!Answer({id}, "rejected")
  /\ UNCHANGED <<call, prompt, shown, walletVars>>

-----------------------------------------------------------------------------
(* After the answer *)

AnswerArrives(c) ==
  /\ call[c].st = "prompted"
  /\ promise[call[c].id] # "pending"
  /\ Goes(c, IF promise[call[c].id] # "approved" THEN "failed"
             ELSE IF call[c].method = "sign" THEN "rephrase" ELSE "granting")
  /\ UNCHANGED <<promptVars, walletVars>>

\* enable grants the chains of its own call; a suggestion saves its chain.
Granted(c) ==
  /\ call[c].st = "granting"
  /\ IF call[c].method = "enable"
     THEN /\ grants' = [grants EXCEPT ![call[c].origin] = @ \cup call[c].chains]
          /\ UNCHANGED known
     ELSE /\ known' = known \cup call[c].chains
          /\ UNCHANGED grants
  /\ Goes(c, "done")
  /\ UNCHANGED <<promptVars, session, listening, clearing>>

\* keyAfterApproval reads the phrase again ...
PhraseReread(c) ==
  /\ call[c].st = "rephrase"
  /\ call' = [call EXCEPT ![c].phrase = session.phrase,
                          ![c].st = IF session.phrase = NoPhrase THEN "failed"
                                    ELSE "reactive"]
  /\ UNCHANGED <<promptVars, walletVars>>

\* keyAfterApproval that compares the row but not the address.
KeyRereadByRow(c) ==
  LET key == Key(call[c].phrase, session.active)
  IN /\ call[c].st = "reactive"
     /\ call' = IF key.row = call[c].before.row
                THEN [call EXCEPT ![c].st = "done", ![c].key = key]
                ELSE [call EXCEPT ![c].st = "failed"]
     /\ UNCHANGED <<promptVars, walletVars>>

\* ... then the active row, and refuses when either is no longer what the user
\* was shown; otherwise it signs.
KeyReread(c) ==
  LET key == Key(call[c].phrase, session.active)
  IN /\ call[c].st = "reactive"
     /\ call' = IF key.row = call[c].before.row /\ key.address = call[c].signer
                THEN [call EXCEPT ![c].st = "done", ![c].key = key]
                ELSE [call EXCEPT ![c].st = "failed"]
     /\ UNCHANGED <<promptVars, walletVars>>

-----------------------------------------------------------------------------
(* Waiting for the user to unlock *)

Waiters == {c \in Calls : call[c].st = "waiting"}

\* The shared wait ends well: each call goes on from where it waited.
Resumed == [c \in Calls |->
  IF c \notin Waiters THEN call[c]
  ELSE [call[c] EXCEPT !.st = IF call[c].method = "enable" THEN "permission" ELSE "phrase",
                       !.retry = TRUE]]

\* waitForUnlock: the first call to find the wallet locked sets up the wait that all
\* calls share.
WaitStarts ==
  /\ Waiters # {} /\ ~ listening
  /\ listening' = TRUE
  /\ UNCHANGED <<call, promptVars, session, clearing, grants, known>>

\* The session changes; only a wait that listens hears of it.
Unlock ==
  /\ session.phrase = NoPhrase
  /\ session' = [phrase |-> PhraseOf[Main], active |-> Main]
  /\ call' = IF listening THEN Resumed ELSE call
  /\ listening' = FALSE
  /\ UNCHANGED <<promptVars, clearing, grants, known>>

\* The unlock landed before the wait began to listen.
WaitFindsUnlocked ==
  /\ listening
  /\ session.phrase # NoPhrase
  /\ call' = Resumed
  /\ listening' = FALSE
  /\ UNCHANGED <<promptVars, session, clearing, grants, known>>

\* The wait times out, or the user closes the popup.
WaitFails ==
  /\ listening
  /\ call' = [c \in Calls |-> IF c \in Waiters THEN [call[c] EXCEPT !.st = "failed"]
                              ELSE call[c]]
  /\ listening' = FALSE
  /\ UNCHANGED <<promptVars, session, clearing, grants, known>>

-----------------------------------------------------------------------------
(* The rest of the wallet *)

\* lockWallet with nothing in the place of the active account.
LockForgetsRow ==
  /\ session.phrase # NoPhrase
  /\ session' = [phrase |-> NoPhrase, active |-> NoRow]
  /\ clearing' = TRUE
  /\ UNCHANGED <<call, promptVars, listening, grants, known>>

\* lockWallet takes the session away, and clears the prompts a storage call and
\* an alarm call later.
LockRemoves ==
  /\ session.phrase # NoPhrase
  /\ session' = [phrase |-> NoPhrase, active |-> Main]
  /\ clearing' = TRUE
  /\ UNCHANGED <<call, promptVars, listening, grants, known>>

LockClears ==
  /\ clearing
  /\ clearing' = FALSE
  /\ Queue!Answer(Queue!Waiting, "rejected")
  /\ UNCHANGED <<call, prompt, shown, session, listening, grants, known>>

SwitchAccount(a) ==
  /\ session.phrase # NoPhrase
  /\ session' = [phrase |-> PhraseOf[a], active |-> a]
  /\ UNCHANGED <<call, promptVars, listening, clearing, grants, known>>

\* Revoked by the user, given up by the page, or run out.
Revoke(o, cs) ==
  /\ grants[o] \cap cs # {}
  /\ grants' = [grants EXCEPT ![o] = @ \ cs]
  /\ UNCHANGED <<call, promptVars, session, listening, clearing, known>>

WorkerStops ==
  /\ call' = [c \in Calls |-> IF call[c].st \in Ended \cup {"new"} THEN call[c]
                              ELSE [call[c] EXCEPT !.st = "lost"]]
  /\ Queue!Answer(Queue!Waiting, "lost")
  /\ listening' = FALSE
  /\ clearing' = FALSE
  /\ UNCHANGED <<prompt, shown, session, grants, known>>

-----------------------------------------------------------------------------
Progress(c) ==
  \/ EnableStarts(c) \/ EnableChecks(c) \/ PermissionChecked(c) \/ PhraseRead(c)
  \/ KeyRead(c) \/ SuggestStarts(c) \/ JoinPrompt(c) \/ AskPrompt(c) \/ QueueFull(c)
  \/ AnswerArrives(c) \/ Granted(c) \/ PhraseReread(c) \/ KeyReread(c)

Next ==
  \/ \E c \in Calls : Request(c) \/ Progress(c)
  \/ \E id \in Ids : SurfaceShows(id) \/ UserApproves(id) \/ PromptRejected(id)
  \/ WaitStarts \/ Unlock \/ WaitFindsUnlocked \/ WaitFails
  \/ LockRemoves \/ LockClears
  \/ \E a \in Accounts : SwitchAccount(a)
  \/ \E o \in Origins, cs \in SUBSET Chains : Revoke(o, cs)
  \/ WorkerStops

Spec == Init /\ [][Next]_vars

\* The event loop runs every continuation; the expiry timers of prompts and the
\* timeout of the unlock wait fire.  Nothing is assumed of the user.
Fairness ==
  /\ \A c \in Calls : WF_vars(Progress(c))
  /\ \A id \in Ids : WF_vars(PromptRejected(id))
  /\ WF_vars(WaitStarts) /\ WF_vars(WaitFails)

FairSpec == Spec /\ Fairness

-----------------------------------------------------------------------------
(* Properties *)

CallRecords ==
  [st : Stages, method : Methods \cup {"none"}, origin : Origins \cup {"none"},
   chains : SUBSET Chains, signer : Addresses \cup {NoAddress}, retry : BOOLEAN,
   phrase : Phrases \cup {NoPhrase}, before : Keys \cup {NoKey},
   key : Keys \cup {NoKey}, id : 0 .. MaxIds]

PromptRecords ==
  {NoPrompt}
  \cup [kind : {"enable", "suggest"}, origin : Origins, chains : SUBSET Chains]
  \cup [kind : {"sign"}, origin : Origins, signer : Addresses]

\* The calls, prompts and wallet state of lib/provider-handler.ts have their types:
\* in particular the active account is always a row of the list.
TypeOK ==
  /\ call \in [Calls -> CallRecords]
  /\ promise \in [Ids -> {"none", "pending"} \cup Queue!Outcomes]
  /\ prompt \in [Ids -> PromptRecords]
  /\ shown \in [Ids -> SUBSET Chains]
  /\ session \in [phrase : Phrases \cup {NoPhrase}, active : Accounts]
  /\ listening \in BOOLEAN
  /\ clearing \in BOOLEAN
  /\ grants \in [Origins -> SUBSET Chains]
  /\ known \in SUBSET Chains

Signed(c) == call[c].method = "sign" /\ call[c].st = "done"

\* keyAfterApproval: a page gets a signature only for a prompt the user approved,
\* which named the page's own origin and the signer; the key that signs is that
\* signer's and sits on the row that was active when the prompt was made, whatever
\* locks, unlocks and account switches came in between; and one approval makes one
\* signature.
SignedAsShown ==
  \A c \in Calls : Signed(c) =>
    /\ call[c].id \in Ids
    /\ promise[call[c].id] = "approved"
    /\ prompt[call[c].id] = SignPrompt(call[c].origin, call[c].signer)
    /\ call[c].key.address = call[c].signer
    /\ call[c].key.row = call[c].before.row
    /\ \A d \in Calls : Signed(d) /\ call[d].id = call[c].id => d = c

\* enable: what a site may use was listed in connection prompts of that site that
\* the user approved, also when several calls shared one prompt.
GrantsWereApproved ==
  \A o \in Origins : \A ch \in grants[o] : \E id \in Ids :
    /\ promise[id] = "approved"
    /\ prompt[id].kind = "enable" /\ prompt[id].origin = o
    /\ ch \in prompt[id].chains

\* findPendingEnable: the enable calls of a site never have two prompts up.
OnePromptPerSite ==
  \A o \in Origins : Cardinality(Joinable(o)) <= 1

\* Every call a page makes is answered or lost with the worker, even if the user
\* never does anything, or locks and unlocks for ever.
EveryCallEnds ==
  \A c \in Calls : call[c].st # "new" ~> call[c].st \in Ended

\* extendApprovalChains says of an extended prompt that "the user sees the merged
\* list": the chains a site may use were on a surface when the user approved.
MergedListSeen ==
  \A o \in Origins : \A ch \in grants[o] : \E id \in Ids :
    promise[id] = "approved" /\ prompt[id].kind = "enable" /\ ch \in shown[id]
=============================================================================
