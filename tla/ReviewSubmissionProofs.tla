------------------------ MODULE ReviewSubmissionProofs ------------------------
(***************************************************************************)
(* What is proved of the registry of claims and of the submissions that    *)
(* use it.                                                                 *)
(***************************************************************************)
EXTENDS ReviewSubmission, FiniteSetTheorems, TLAPS

(***************************************************************************)
(* The safety properties of the claim registry, proved for any number of   *)
(* workers, commits, claims and clock ticks and any lease.                 *)
(*                                                                         *)
(* SingleDurableHolder is not inductive: it does not say that the document *)
(* still carries the token of the claim a worker holds.  ClaimsInv adds    *)
(* that (Registered) and that no two claims share a token (UniqueTokens,   *)
(* which rests on TokensIssued).                                           *)
(***************************************************************************)

\* A document or an entry that runs for claim c.
EntryOf(c) == [status |-> "processing", token |-> c.token, lease |-> c.lease]

TokensIssued == \A c \in held : c.token <= issued

UniqueTokens == \A c, d \in held : c.token = d.token => c = d

Registered ==
    \A c \in held : (c.store = "durable" /\ Live(c)) => durable[c.head] = EntryOf(c)

ClaimsInv ==
    /\ ClaimsTypeOK
    /\ OnlineMeansNoLocalMemory
    /\ TokensIssued
    /\ UniqueTokens
    /\ Registered

-----------------------------------------------------------------------------
(* The entries the operations store are entries                            *)

\* What claim() stores is a document of the registry.
LEMMA ProcessingType ==
    ASSUME ClaimsTypeOK, issued < MaxClaims
    PROVE  /\ Processing \in Entry
           /\ NextToken \in Tokens
           /\ NextToken \in 0..MaxClaims
BY ClaimsAssumption DEF ClaimsTypeOK, Processing, Entry, NextToken, Tokens

\* What release() leaves is an entry, too.
LEMMA NoEntryType == NoEntry \in Entry
BY DEF NoEntry, Entry

\* mark_submitted() changes the status of a document and nothing else.
LEMMA SubmittedType ==
    ASSUME NEW e \in Entry
    PROVE  Submitted(e) \in Entry
BY DEF Submitted, Entry

\* claim() hands out a claim with a token no other claim has.
LEMMA HandOutInv ==
    ASSUME ClaimsInv, issued < MaxClaims, clock' = clock,
           NEW w \in Workers, NEW h \in Heads, NEW store \in {"durable", "local"},
           HandOut(w, h, store)
    PROVE  /\ held' \subseteq HeldClaim
           /\ issued' \in 0..MaxClaims
           /\ TokensIssued'
           /\ UniqueTokens'
<1> DEFINE new == [worker |-> w, head |-> h, token |-> NextToken,
                   lease |-> clock + LeaseTicks, store |-> store]
<1>1. new \in HeldClaim
  BY ProcessingType, ClaimsAssumption DEF ClaimsInv, ClaimsTypeOK, HeldClaim
<1>2. held' = held \cup {new} /\ issued' = issued + 1
  BY DEF HandOut, NextToken
<1>3. issued \in Nat /\ issued + 1 \in 0..MaxClaims /\ new.token = issued + 1
  BY ClaimsAssumption DEF ClaimsInv, ClaimsTypeOK, NextToken
<1>4. \A c \in held : c.token \in Nat /\ c.token <= issued
  BY DEF ClaimsInv, ClaimsTypeOK, HeldClaim, Tokens, TokensIssued
<1>5. held' \subseteq HeldClaim
  BY <1>1, <1>2 DEF ClaimsInv, ClaimsTypeOK
<1>6. TokensIssued'
  <2> SUFFICES ASSUME NEW c \in held' PROVE c.token <= issued'
    BY DEF TokensIssued
  <2> HIDE DEF new
  <2> QED BY <1>2, <1>3, <1>4
<1>7. UniqueTokens'
  <2> SUFFICES ASSUME NEW c \in held', NEW d \in held', c.token = d.token PROVE c = d
    BY DEF UniqueTokens
  <2> HIDE DEF new
  <2>1. CASE c \in held /\ d \in held
    BY <2>1 DEF ClaimsInv, UniqueTokens
  <2>2. CASE c = new \/ d = new
    BY <2>2, <1>2, <1>3, <1>4
  <2> QED BY <2>1, <2>2, <1>2
<1> QED BY <1>2, <1>3, <1>5, <1>6, <1>7

\* The entry a claim writes runs for the claim it hands out, and for no other.
LEMMA GrantInv ==
    ASSUME ClaimsInv, issued < MaxClaims, clock' = clock,
           NEW w \in Workers, NEW h \in Heads,
           ~LeaseRuns(durable[h]), durable' = [durable EXCEPT ![h] = Processing],
           HandOut(w, h, "durable") \/ HandOut(w, h, "local")
    PROVE  /\ durable' \in [Heads -> Entry]
           /\ Registered'
<1>1. durable' \in [Heads -> Entry]
  BY ProcessingType DEF ClaimsInv, ClaimsTypeOK
<1>2. Registered'
  <2> SUFFICES ASSUME NEW c \in held', c.store = "durable", Live(c)'
               PROVE  durable'[c.head] = EntryOf(c)
    BY DEF Registered, EntryOf
  <2>1. CASE c \in held
    <3>1. Live(c) /\ c.head \in Heads /\ c.lease \in Nat
      BY <2>1 DEF Live, ClaimsInv, ClaimsTypeOK, HeldClaim
    <3>2. durable[c.head] = EntryOf(c)
      BY <2>1, <3>1 DEF ClaimsInv, Registered
    <3>3. c.head # h
      BY <3>1, <3>2 DEF LeaseRuns, Live, EntryOf
    <3> QED BY <3>1, <3>2, <3>3 DEF ClaimsInv, ClaimsTypeOK
  <2>2. CASE c \notin held
    <3>1. c = [worker |-> w, head |-> h, token |-> NextToken,
               lease |-> clock + LeaseTicks, store |-> "durable"]
      BY <2>2 DEF HandOut
    <3> QED BY <3>1 DEF EntryOf, Processing, ClaimsInv, ClaimsTypeOK
  <2> QED BY <2>1, <2>2
<1> QED BY <1>1, <1>2

\* A call that leaves the documents alone, and hands out local claims only,
\* keeps every durable claim registered.
LEMMA SameDocumentsInv ==
    ASSUME ClaimsInv, clock' = clock, UNCHANGED durable,
           \A c \in held' : c \in held \/ c.store = "local"
    PROVE  Registered'
BY DEF ClaimsInv, Registered, Live, EntryOf

\* A call that drops claims and hands out none.
LEMMA FewerClaimsInv ==
    ASSUME ClaimsInv, held' \subseteq held, UNCHANGED issued
    PROVE  held' \subseteq HeldClaim /\ TokensIssued' /\ UniqueTokens'
BY DEF ClaimsInv, ClaimsTypeOK, TokensIssued, UniqueTokens

-----------------------------------------------------------------------------
(* claim()                                                                 *)

LEMMA ClaimDurableInv ==
    ASSUME ClaimsInv, clock' = clock, NEW w \in Workers, NEW h \in Heads,
           NEW force \in BOOLEAN, ClaimDurable(w, h, force)
    PROVE  ClaimsInv'
<1>1. CASE Blocks(durable[h], force)
  <2>1. UNCHANGED claimVars
    BY <1>1 DEF ClaimDurable, claimVars
  <2> QED BY <2>1 DEF claimVars, ClaimsInv, ClaimsTypeOK, OnlineMeansNoLocalMemory,
                      TokensIssued, UniqueTokens, Registered, Live
<1>2. CASE ~Blocks(durable[h], force)
  <2>1. /\ issued < MaxClaims
        /\ durable' = [durable EXCEPT ![h] = Processing]
        /\ HandOut(w, h, "durable")
        /\ UNCHANGED <<local, online>>
    BY <1>2 DEF ClaimDurable
  <2>2. ~LeaseRuns(durable[h])
    BY <1>2 DEF Blocks
  <2>3. /\ held' \subseteq HeldClaim /\ issued' \in 0..MaxClaims
        /\ TokensIssued' /\ UniqueTokens'
    BY <2>1, HandOutInv
  <2>4. durable' \in [Heads -> Entry] /\ Registered'
    BY <2>1, <2>2, GrantInv
  <2> QED BY <2>1, <2>3, <2>4 DEF ClaimsInv, ClaimsTypeOK, OnlineMeansNoLocalMemory
<1> QED BY <1>1, <1>2

\* The local table after a local claim, and what that claim does to the rest.
LEMMA TakeLocalInv ==
    ASSUME ClaimsInv, clock' = clock, NEW w \in Workers, NEW h \in Heads,
           NEW force \in BOOLEAN, TakeLocal(w, h, force)
    PROVE  /\ local' \in [Workers -> [Heads -> Entry]]
           /\ \A v \in Workers \ {w} : local'[v] = local[v]
           /\ held' \subseteq HeldClaim /\ issued' \in 0..MaxClaims
           /\ TokensIssued' /\ UniqueTokens'
           /\ \A c \in held' : c \in held \/ c.store = "local"
<1>1. CASE Blocks(local[w][h], force)
  <2>1. UNCHANGED <<local, held, issued>>
    BY <1>1 DEF TakeLocal
  <2> QED BY <2>1, FewerClaimsInv DEF ClaimsInv, ClaimsTypeOK
<1>2. CASE ~Blocks(local[w][h], force)
  <2>1. /\ issued < MaxClaims
        /\ local' = [local EXCEPT ![w][h] = Processing]
        /\ HandOut(w, h, "local")
    BY <1>2 DEF TakeLocal
  <2>2. Processing \in Entry /\ local \in [Workers -> [Heads -> Entry]]
    BY <2>1, ProcessingType DEF ClaimsInv, ClaimsTypeOK
  <2>3. /\ local' \in [Workers -> [Heads -> Entry]]
        /\ \A v \in Workers \ {w} : local'[v] = local[v]
    BY <2>1, <2>2
  <2>4. /\ held' \subseteq HeldClaim /\ issued' \in 0..MaxClaims
        /\ TokensIssued' /\ UniqueTokens'
    BY <2>1, HandOutInv
  <2>5. \A c \in held' : c \in held \/ c.store = "local"
    BY <2>1 DEF HandOut
  <2> QED BY <2>3, <2>4, <2>5
<1> QED BY <1>1, <1>2

LEMMA ClaimLocalInv ==
    ASSUME ClaimsInv, clock' = clock, NEW w \in Workers, NEW h \in Heads,
           NEW force \in BOOLEAN, ClaimLocal(w, h, force)
    PROVE  ClaimsInv'
<1>1. TakeLocal(w, h, force) /\ UNCHANGED <<durable, online>> /\ ~online[w]
  BY DEF ClaimLocal
<1>2. Registered'
  BY <1>1, TakeLocalInv, SameDocumentsInv
<1>3. OnlineMeansNoLocalMemory'
  BY <1>1, TakeLocalInv DEF ClaimsInv, OnlineMeansNoLocalMemory
<1> QED BY <1>1, <1>2, <1>3, TakeLocalInv DEF ClaimsInv, ClaimsTypeOK

\* The worker has a client, so its table is empty and the local claim is granted.
LEMMA ClaimFallbackInv ==
    ASSUME ClaimsInv, clock' = clock, NEW w \in Workers, NEW h \in Heads,
           NEW force \in BOOLEAN, ClaimFallback(w, h, force)
    PROVE  ClaimsInv'
<1>1. /\ online[w] /\ issued < MaxClaims
      /\ online' = [online EXCEPT ![w] = FALSE]
      /\ TakeLocal(w, h, FALSE)
  BY DEF ClaimFallback, FallbackForce
<1>2. HandOut(w, h, "local")
  <2>1. local[w][h] = NoEntry
    BY <1>1 DEF ClaimsInv, OnlineMeansNoLocalMemory
  <2>2. ~Blocks(local[w][h], FALSE)
    BY <2>1 DEF Blocks, LeaseRuns, NoEntry
  <2> QED BY <1>1, <2>2 DEF TakeLocal
<1>3. durable' \in [Heads -> Entry] /\ Registered'
  <2>1. CASE UNCHANGED durable
    BY <2>1, <1>1, TakeLocalInv, SameDocumentsInv DEF ClaimsInv, ClaimsTypeOK
  <2>2. CASE ~Blocks(durable[h], force) /\ durable' = [durable EXCEPT ![h] = Processing]
    <3>1. ~LeaseRuns(durable[h])
      BY <2>2 DEF Blocks
    <3> QED BY <1>1, <1>2, <2>2, <3>1, GrantInv
  <2> QED BY <2>1, <2>2 DEF ClaimFallback
<1>4. OnlineMeansNoLocalMemory'
  <2> SUFFICES ASSUME NEW v \in Workers, online'[v]
               PROVE  local'[v] = [g \in Heads |-> NoEntry]
    BY DEF OnlineMeansNoLocalMemory
  <2>1. v # w /\ online[v]
    BY <1>1 DEF ClaimsInv, ClaimsTypeOK
  <2>2. local'[v] = local[v]
    BY <1>1, <2>1, TakeLocalInv
  <2> QED BY <2>1, <2>2 DEF ClaimsInv, OnlineMeansNoLocalMemory
<1>5. online' \in [Workers -> BOOLEAN]
  BY <1>1 DEF ClaimsInv, ClaimsTypeOK
<1> QED BY <1>1, <1>3, <1>4, <1>5, TakeLocalInv DEF ClaimsInv, ClaimsTypeOK

-----------------------------------------------------------------------------
(* mark_submitted(), release() and the ways a claim is lost                *)

\* What the two calls may do to the documents, whether or not they raise: the
\* only document that changes is the one with the token of the claim.
EndsOnly(c) ==
    /\ durable' \in [Heads -> Entry]
    /\ \A h \in Heads : durable'[h] # durable[h] => h = c.head /\ durable[h].token = c.token

LEMMA MarkEffectEnds ==
    ASSUME ClaimsTypeOK, NEW c \in HeldClaim, MarkEffect(c.head, c)
    PROVE  EndsOnly(c)
<1> DEFINE e == durable[c.head]
<1>1. c.head \in Heads /\ durable \in [Heads -> Entry] /\ e \in Entry
  BY DEF HeldClaim, ClaimsTypeOK
<1>2. Submitted(e) \in Entry
  BY <1>1, SubmittedType
<1>3. durable' = [durable EXCEPT ![c.head] = IF Owns(e, c) THEN Submitted(e) ELSE e]
  BY <1>1 DEF MarkEffect
<1> QED BY <1>1, <1>2, <1>3 DEF EndsOnly, Owns

LEMMA ReleaseEffectEnds ==
    ASSUME ClaimsTypeOK, NEW c \in HeldClaim, ReleaseEffect(c.head, c)
    PROVE  EndsOnly(c)
<1> DEFINE e == durable[c.head]
<1>1. c.head \in Heads /\ durable \in [Heads -> Entry] /\ e \in Entry
  BY DEF HeldClaim, ClaimsTypeOK
<1>2. durable' = [durable EXCEPT ![c.head] =
                      IF Owns(e, c) /\ e.status = "processing" THEN NoEntry ELSE e]
  BY <1>1 DEF ReleaseEffect
<1> QED BY <1>1, <1>2, NoEntryType DEF EndsOnly, Owns

LEMMA NoChangeEnds ==
    ASSUME ClaimsTypeOK, NEW c \in HeldClaim, UNCHANGED durable
    PROVE  EndsOnly(c)
BY DEF EndsOnly, ClaimsTypeOK

\* Every call that ends a claim.
Ends(w, c) ==
    \/ MarkSubmitted(w, c) \/ MarkRaises(w, c)
    \/ Release(w, c) \/ ReleaseRaises(w, c)
    \/ Abandon(w, c)

\* The frame of a call that ends a claim.
LEMMA EndsFrame ==
    ASSUME ClaimsInv, NEW w \in Workers, NEW c \in HeldBy(w), Ends(w, c)
    PROVE  /\ c \in held /\ c \in HeldClaim
           /\ held' = held \ {c}
           /\ UNCHANGED <<online, issued>>
           /\ EndsOnly(c)
           /\ local' \in [Workers -> [Heads -> Entry]]
           /\ OnlineMeansNoLocalMemory'
<1>1. c \in held /\ c \in HeldClaim /\ c.head \in Heads /\ c.token \in Tokens
  BY DEF HeldBy, ClaimsInv, ClaimsTypeOK, HeldClaim
<1>2. held' = held \ {c} /\ UNCHANGED <<online, issued>>
  BY DEF Ends, MarkSubmitted, MarkRaises, Release, ReleaseRaises, Abandon
<1>3. EndsOnly(c)
  <2>1. MarkEffect(c.head, c) \/ ReleaseEffect(c.head, c) \/ UNCHANGED durable
    BY DEF Ends, MarkSubmitted, MarkRaises, Release, ReleaseRaises, Abandon
  <2> QED BY <1>1, <2>1, MarkEffectEnds, ReleaseEffectEnds, NoChangeEnds DEF ClaimsInv
<1>4. \/ UNCHANGED local
      \/ /\ ~online[w]
         /\ \E e \in Entry : local' = [local EXCEPT ![w][c.head] = e]
  <2> DEFINE done == [status |-> "submitted", token |-> c.token, lease |-> 0]
             mine == local[w][c.head]
  <2>1. done \in Entry /\ mine \in Entry
    BY <1>1 DEF Entry, ClaimsInv, ClaimsTypeOK
  <2>2. CASE MarkSubmitted(w, c) /\ ~online[w]
    <3>1. local' = [local EXCEPT ![w][c.head] = IF Owns(mine, c) THEN done ELSE mine]
      BY <1>1, <2>2 DEF MarkSubmitted, ClaimsInv, ClaimsTypeOK
    <3> HIDE DEF done, mine
    <3> QED BY <2>1, <2>2, <3>1
  <2>3. CASE Release(w, c) /\ ~online[w]
    <3>1. local' = [local EXCEPT ![w][c.head] = IF Owns(mine, c) THEN NoEntry ELSE mine]
      BY <1>1, <2>3 DEF Release, ClaimsInv, ClaimsTypeOK
    <3> HIDE DEF mine
    <3> QED BY <2>1, <2>3, <3>1, NoEntryType
  <2> QED BY <2>2, <2>3 DEF Ends, MarkSubmitted, MarkRaises, Release, ReleaseRaises, Abandon
<1>5. local' \in [Workers -> [Heads -> Entry]] /\ OnlineMeansNoLocalMemory'
  <2>1. CASE UNCHANGED local
    BY <2>1, <1>2 DEF ClaimsInv, ClaimsTypeOK, OnlineMeansNoLocalMemory
  <2>2. CASE ~online[w] /\ \E e \in Entry : local' = [local EXCEPT ![w][c.head] = e]
    BY <2>2, <1>1, <1>2 DEF ClaimsInv, ClaimsTypeOK, OnlineMeansNoLocalMemory
  <2> QED BY <1>4, <2>1, <2>2
<1> QED BY <1>1, <1>2, <1>3, <1>5

LEMMA EndsInv ==
    ASSUME ClaimsInv, clock' = clock, NEW w \in Workers, NEW c \in HeldBy(w), Ends(w, c)
    PROVE  ClaimsInv'
<1>1. /\ c \in held /\ held' = held \ {c} /\ UNCHANGED <<online, issued>>
      /\ EndsOnly(c)
      /\ local' \in [Workers -> [Heads -> Entry]]
      /\ OnlineMeansNoLocalMemory'
  BY EndsFrame
<1>2. held' \subseteq HeldClaim /\ TokensIssued' /\ UniqueTokens'
  BY <1>1, FewerClaimsInv
<1>3. Registered'
  <2> SUFFICES ASSUME NEW d \in held', d.store = "durable", Live(d)'
               PROVE  durable'[d.head] = EntryOf(d)
    BY DEF Registered, EntryOf
  <2>1. d \in held /\ d # c /\ d.head \in Heads /\ Live(d)
    BY <1>1 DEF Live, ClaimsInv, ClaimsTypeOK, HeldClaim
  <2>2. durable[d.head] = EntryOf(d)
    BY <2>1 DEF ClaimsInv, Registered
  <2>3. durable[d.head].token # c.token
    BY <1>1, <2>1, <2>2 DEF EntryOf, ClaimsInv, UniqueTokens
  <2> QED BY <1>1, <2>1, <2>2, <2>3 DEF EndsOnly
<1> QED BY <1>1, <1>2, <1>3 DEF ClaimsInv, ClaimsTypeOK, EndsOnly

LEMMA CrashInv ==
    ASSUME ClaimsInv, clock' = clock, NEW w \in Workers, Crash(w)
    PROVE  ClaimsInv'
<1>1. /\ local' = [local EXCEPT ![w] = [h \in Heads |-> NoEntry]]
      /\ UNCHANGED <<durable, issued>>
      /\ held' \subseteq held
  BY DEF Crash
<1>2. PICK mode \in BOOLEAN : online' = [online EXCEPT ![w] = mode]
  BY ClaimsAssumption DEF Crash, BootModes
<1>3. held' \subseteq HeldClaim /\ TokensIssued' /\ UniqueTokens'
  BY <1>1, FewerClaimsInv
<1>4. Registered'
  BY <1>1, SameDocumentsInv
<1>5. local' \in [Workers -> [Heads -> Entry]] /\ online' \in [Workers -> BOOLEAN]
  BY <1>1, <1>2, NoEntryType DEF ClaimsInv, ClaimsTypeOK
<1>6. OnlineMeansNoLocalMemory'
  BY <1>1, <1>2 DEF ClaimsInv, ClaimsTypeOK, OnlineMeansNoLocalMemory
<1> QED BY <1>1, <1>3, <1>4, <1>5, <1>6 DEF ClaimsInv, ClaimsTypeOK

\* Time only ends leases.
LEMMA TickInv ==
    ASSUME ClaimsInv, Tick, UNCHANGED registryVars
    PROVE  ClaimsInv'
<1>1. clock \in Nat /\ clock' = clock + 1 /\ clock' \in 0..MaxClock
  BY ClaimsAssumption DEF Tick, ClaimsInv, ClaimsTypeOK
<1>2. Registered'
  BY <1>1 DEF Registered, registryVars, Live, EntryOf, ClaimsInv, ClaimsTypeOK, HeldClaim
<1> QED BY <1>1, <1>2 DEF ClaimsInv, ClaimsTypeOK, registryVars, OnlineMeansNoLocalMemory,
                          TokensIssued, UniqueTokens

-----------------------------------------------------------------------------
(* The inductive invariant                                                 *)

LEMMA InitInv == ClaimsInit => ClaimsInv
<1> SUFFICES ASSUME ClaimsInit PROVE ClaimsInv
  OBVIOUS
<1>1. ClaimsTypeOK
  <2>1. BootModes \subseteq BOOLEAN
    BY ClaimsAssumption DEF BootModes
  <2>2. issued \in 0..MaxClaims /\ clock \in 0..MaxClock /\ held \subseteq HeldClaim
    BY ClaimsAssumption DEF ClaimsInit
  <2> QED BY <2>1, <2>2, NoEntryType DEF ClaimsInit, ClaimsTypeOK
<1> QED BY <1>1 DEF ClaimsInit, ClaimsInv, OnlineMeansNoLocalMemory, TokensIssued,
                    UniqueTokens, Registered

LEMMA NextInv == ClaimsInv /\ [ClaimsNext]_claimVars => ClaimsInv'
<1> SUFFICES ASSUME ClaimsInv, [ClaimsNext]_claimVars PROVE ClaimsInv'
  OBVIOUS
<1>1. CASE UNCHANGED claimVars
  BY <1>1 DEF claimVars, ClaimsInv, ClaimsTypeOK, OnlineMeansNoLocalMemory,
              TokensIssued, UniqueTokens, Registered, Live
<1>2. CASE Tick /\ UNCHANGED registryVars
  BY <1>2, TickInv
<1>3. ASSUME NEW w \in Workers, RegistryCall(w), UNCHANGED clock
      PROVE  ClaimsInv'
  <2>1. ASSUME NEW h \in Heads, NEW force \in BOOLEAN, Claim(w, h, force)
        PROVE  ClaimsInv'
    BY <1>3, <2>1, ClaimDurableInv, ClaimFallbackInv, ClaimLocalInv DEF Claim
  <2>2. ASSUME NEW c \in HeldBy(w), Ends(w, c)
        PROVE  ClaimsInv'
    BY <1>3, <2>2, EndsInv
  <2>3. CASE Crash(w)
    BY <1>3, <2>3, CrashInv
  <2> QED BY <1>3, <2>1, <2>2, <2>3 DEF RegistryCall, Ends
<1> QED BY <1>1, <1>2, <1>3 DEF ClaimsNext

\* Every state the registry reaches satisfies the strengthened invariant.
THEOREM ClaimsInvariant == ClaimsSpec => []ClaimsInv
<1> QED BY InitInv, NextInv, PTL DEF ClaimsSpec

\* The documents, the local tables and the claims in flight keep their types.
THEOREM ClaimsTypeCorrect == ClaimsSpec => []ClaimsTypeOK
<1>1. ClaimsInv => ClaimsTypeOK
  BY DEF ClaimsInv
<1> QED BY <1>1, ClaimsInvariant, PTL

\* Two workers never hold an unexpired durable claim of the same commit.
THEOREM ClaimsMutualExclusion == ClaimsSpec => []SingleDurableHolder
<1>1. ClaimsInv => SingleDurableHolder
  <2> SUFFICES ASSUME ClaimsInv, NEW c \in held, NEW d \in held,
                      c.store = "durable", Live(c), d.store = "durable", Live(d),
                      c.head = d.head
               PROVE  c = d
    BY DEF SingleDurableHolder
  <2>1. EntryOf(c) = EntryOf(d)
    BY DEF ClaimsInv, Registered
  <2>2. c.token = d.token
    BY <2>1 DEF EntryOf
  <2> QED BY <2>2 DEF ClaimsInv, UniqueTokens
<1> QED BY <1>1, ClaimsInvariant, PTL

\* A process that still has its Firestore client remembers no local claim.
THEOREM ClaimsFallbackFindsNothing == ClaimsSpec => []OnlineMeansNoLocalMemory
<1>1. ClaimsInv => OnlineMeansNoLocalMemory
  BY DEF ClaimsInv
<1> QED BY <1>1, ClaimsInvariant, PTL

\* An unexpired claim document changes only by the call of its own holder.
THEOREM ClaimsEndedByHolder == ClaimsSpec => LiveClaimEndedByHolderOnly
<1> DEFINE ByHolder == \A h \in Heads :
                          (LeaseRuns(durable[h]) /\ durable'[h] # durable[h])
                             => \E c \in held \ held' : c.head = h /\ c.token = durable[h].token
<1>1. ClaimsInv /\ [ClaimsNext]_claimVars => [ByHolder]_claimVars
  <2> SUFFICES ASSUME ClaimsInv, ClaimsNext, NEW h \in Heads,
                      LeaseRuns(durable[h]), durable'[h] # durable[h]
               PROVE  \E c \in held \ held' : c.head = h /\ c.token = durable[h].token
    OBVIOUS
  <2>1. PICK w \in Workers : RegistryCall(w)
    BY DEF ClaimsNext, registryVars
  <2>2. ~Crash(w)
    BY DEF Crash
  <2>3. ASSUME NEW g \in Heads, NEW force \in BOOLEAN, Claim(w, g, force)
        PROVE  FALSE
    <3>1. \/ UNCHANGED durable
          \/ ~Blocks(durable[g], force) /\ durable' = [durable EXCEPT ![g] = Processing]
      BY <2>3 DEF Claim, ClaimDurable, ClaimFallback, ClaimLocal
    <3> QED BY <3>1 DEF Blocks, ClaimsInv, ClaimsTypeOK
  <2>4. PICK c \in HeldBy(w) : Ends(w, c)
    BY <2>1, <2>2, <2>3 DEF RegistryCall, Ends
  <2> QED BY <2>4, EndsFrame DEF EndsOnly
<1> QED BY <1>1, ClaimsInvariant, PTL DEF ClaimsSpec, LiveClaimEndedByHolderOnly

-----------------------------------------------------------------------------
(***************************************************************************)
(* A submission of a review, proved for any number of workers, commits,    *)
(* submissions and failures.                                               *)
(*                                                                         *)
(* The first half shows that a submission uses the claim registry as       *)
(* ReviewClaims says its callers do, so that what is proved of the         *)
(* registry holds here, too.  It rests on Linked: a submission between its *)
(* claim and the end of it holds exactly one claim, of its own commit, and *)
(* a worker in any other place holds none.  The second half strengthens    *)
(* the properties of the reviews themselves.                               *)
(***************************************************************************)

\* Where a submission holds its claim.
Holding == {"claimed", "rendered", "inlineFailed", "accepted"}

Linked ==
    \A w \in Workers :
        /\ session[w].pc # "idle" => session[w].sha \in Heads
        /\ session[w].pc \in Holding =>
              \E c \in held : HeldBy(w) = {c} /\ c.head = session[w].sha
        /\ session[w].pc \notin Holding => HeldBy(w) = {}

EnabledOnly == \A w \in Workers : online[w] => DurableEnabled

SubBase == SubTypeOK /\ ClaimsInv /\ Linked /\ EnabledOnly

-----------------------------------------------------------------------------
(* The calls of a submission are calls of the registry                     *)

\* The claim a submission ends is the one it holds.
LEMMA ClaimOfHeld ==
    ASSUME SubBase, NEW w \in Workers, session[w].pc \in Holding
    PROVE  /\ ClaimOf(w) \in HeldBy(w)
           /\ ClaimOf(w) \in held
           /\ ClaimOf(w) \in HeldClaim
           /\ ClaimOf(w).worker = w
           /\ ClaimOf(w).head = session[w].sha
           /\ HeldBy(w) = {ClaimOf(w)}
<1>1. PICK c \in held : HeldBy(w) = {c} /\ c.head = session[w].sha
  BY DEF SubBase, Linked
<1>2. ClaimOf(w) \in HeldBy(w)
  BY <1>1 DEF ClaimOf
<1> QED BY <1>1, <1>2 DEF HeldBy, SubBase, ClaimsInv, ClaimsTypeOK

\* Every exit that may release a claim ends it.
LEMMA ExitEnds ==
    ASSUME NEW w \in Workers, NEW kinds, ExitReleasing(w, kinds)
    PROVE  Ends(w, ClaimOf(w)) /\ clock' = clock /\ Return(w)
BY DEF ExitReleasing, Ends

\* A worker that holds nothing may claim.
LEMMA ClaimStepCalls ==
    ASSUME SubBase, NEW w \in Workers, ClaimStep(w)
    PROVE  /\ session[w].sha \in Heads /\ session[w].force \in BOOLEAN
           /\ Claim(w, session[w].sha, session[w].force)
           /\ LockFree(w) /\ RegistryCall(w) /\ clock' = clock
<1>1. session[w].pc = "listed" /\ session[w] \in Session
  BY DEF ClaimStep, At, SubBase, SubTypeOK
<1>2. session[w].sha \in Heads /\ session[w].force \in BOOLEAN
  BY <1>1 DEF SubBase, Linked, Session
<1>3. LockFree(w)
  BY <1>1 DEF SubBase, Linked, Holding, HeldBy, LockFree
<1>4. Claim(w, session[w].sha, session[w].force) /\ clock' = clock
  BY DEF ClaimStep
<1> QED BY <1>2, <1>3, <1>4 DEF RegistryCall

\* What a claim gives: nothing, or one claim of the commit, of the worker that
\* asked, in force from now on.
LEMMA ClaimGives ==
    ASSUME ClaimsInv, NEW w \in Workers, NEW h \in Heads, NEW force \in BOOLEAN,
           Claim(w, h, force), LockFree(w)
    PROVE  \/ UNCHANGED <<durable, local, online, held, issued>>
           \/ \E c : /\ c \notin held /\ held' = held \cup {c}
                     /\ c.worker = w /\ c.head = h /\ c.token = NextToken
                     /\ c.lease = clock + LeaseTicks
                     /\ \/ /\ c.store = "durable" /\ online[w] /\ ~Blocks(durable[h], force)
                           /\ durable' = [durable EXCEPT ![h] = Processing]
                           /\ UNCHANGED <<local, online>>
                        \/ /\ c.store = "local" /\ ~online[w]
                           /\ local' = [local EXCEPT ![w][h] = Processing]
                           /\ UNCHANGED <<durable, online>>
                        \/ c.store = "local" /\ online[w]
<1> DEFINE new(store) == [worker |-> w, head |-> h, token |-> NextToken,
                          lease |-> clock + LeaseTicks, store |-> store]
<1>1. new("durable") \notin held /\ new("local") \notin held
  BY DEF LockFree
<1>2. CASE ClaimDurable(w, h, force)
  <2>1. CASE Blocks(durable[h], force)
    BY <1>2, <2>1 DEF ClaimDurable
  <2>2. CASE ~Blocks(durable[h], force)
    <3> DEFINE c == new("durable")
    <3>1. /\ held' = held \cup {c} /\ online[w]
          /\ durable' = [durable EXCEPT ![h] = Processing]
          /\ UNCHANGED <<local, online>>
      BY <1>2, <2>2 DEF ClaimDurable, HandOut
    <3>2. /\ c.worker = w /\ c.head = h /\ c.token = NextToken
          /\ c.lease = clock + LeaseTicks /\ c.store = "durable"
      OBVIOUS
    <3> HIDE DEF new
    <3> QED BY <1>1, <2>2, <3>1, <3>2
  <2> QED BY <2>1, <2>2
<1>3. CASE ClaimLocal(w, h, force)
  <2>1. CASE Blocks(local[w][h], force)
    BY <1>3, <2>1 DEF ClaimLocal, TakeLocal
  <2>2. CASE ~Blocks(local[w][h], force)
    <3> DEFINE c == new("local")
    <3>1. /\ held' = held \cup {c} /\ ~online[w]
          /\ local' = [local EXCEPT ![w][h] = Processing]
          /\ UNCHANGED <<durable, online>>
      BY <1>3, <2>2 DEF ClaimLocal, TakeLocal, HandOut
    <3>2. /\ c.worker = w /\ c.head = h /\ c.token = NextToken
          /\ c.lease = clock + LeaseTicks /\ c.store = "local"
      OBVIOUS
    <3> HIDE DEF new
    <3> QED BY <1>1, <3>1, <3>2
  <2> QED BY <2>1, <2>2
<1>4. CASE ClaimFallback(w, h, force)
  <2> DEFINE c == new("local")
  <2>1. online[w] /\ TakeLocal(w, h, FALSE)
    BY <1>4 DEF ClaimFallback, FallbackForce
  <2>2. local[w][h] = NoEntry
    BY <2>1 DEF ClaimsInv, OnlineMeansNoLocalMemory
  <2>3. ~Blocks(local[w][h], FALSE)
    BY <2>2 DEF Blocks, LeaseRuns, NoEntry
  <2>4. held' = held \cup {c}
    BY <2>1, <2>3 DEF TakeLocal, HandOut
  <2>5. /\ c.worker = w /\ c.head = h /\ c.token = NextToken
        /\ c.lease = clock + LeaseTicks /\ c.store = "local"
    OBVIOUS
  <2> HIDE DEF new
  <2> QED BY <1>1, <2>1, <2>4, <2>5
<1> QED BY <1>2, <1>3, <1>4 DEF Claim

\* A step of a submission, as the registry sees it.
Call(w) ==
    \/ UNCHANGED claimVars
    \/ ClaimStep(w)
    \/ session[w].pc \in Holding /\ Ends(w, ClaimOf(w)) /\ clock' = clock

LEMMA StepCall ==
    ASSUME SubBase, NEW w \in Workers, Step(w)
    PROVE  Call(w)
<1>1. CASE Fetch(w) \/ List(w) \/ Render(w) \/ Create(w) \/ Dismiss(w)
  BY <1>1 DEF Fetch, List, Render, Create, Dismiss, Call
<1>2. CASE ClaimStep(w)
  BY <1>2 DEF Call
<1>3. CASE RejectPayload(w) \/ EnforceRaises(w)
  BY <1>3, ExitEnds DEF RejectPayload, EnforceRaises, Ends, Call, At, Holding
<1>4. ASSUME NEW kinds, Attempting(w), AttemptRaises(w, kinds)
      PROVE  Call(w)
  BY <1>4, ExitEnds DEF Attempting, AttemptRaises, Call, At, Holding
<1>5. CASE CreateRejected(w) \/ CreateResponseLost(w)
  BY <1>4, <1>5 DEF CreateRejected, CreateResponseLost
<1>6. CASE Mark(w)
  BY <1>6 DEF Mark, Ends, Call, At, Holding
<1> QED BY <1>1, <1>2, <1>3, <1>5, <1>6 DEF Step

\* Hence every step of the composition is a step of the registry, or leaves it
\* alone.
LEMMA StepOfRegistry ==
    ASSUME SubBase, [SubNext]_subVars
    PROVE  [ClaimsNext]_claimVars
<1>1. ASSUME NEW w \in Workers, Step(w)
      PROVE  [ClaimsNext]_claimVars
  <2>1. CASE ClaimStep(w)
    BY <2>1, ClaimStepCalls DEF ClaimsNext
  <2>2. CASE session[w].pc \in Holding /\ Ends(w, ClaimOf(w)) /\ clock' = clock
    <3>1. ClaimOf(w) \in HeldBy(w)
      BY <2>2, ClaimOfHeld
    <3> QED BY <2>2, <3>1 DEF ClaimsNext, RegistryCall, Ends
  <2> QED BY <1>1, <2>1, <2>2, StepCall DEF Call
<1>2. ASSUME NEW w \in Workers, Restart(w)
      PROVE  ClaimsNext
  BY <1>2 DEF Restart, ClaimsNext, RegistryCall
<1>3. CASE PassTime
  BY <1>3 DEF PassTime, ClaimsNext
<1>4. CASE Push \/ UNCHANGED subVars
  BY <1>4 DEF Push, subVars, claimVars
<1> QED BY <1>1, <1>2, <1>3, <1>4 DEF SubNext

-----------------------------------------------------------------------------
(* Types                                                                   *)

LEMMA IdleType == Idle \in Session /\ Idle.pc = "idle" /\ Idle.pc \notin Holding
BY DEF Idle, Session, Holding

\* GitHub appends a review to those it has.
LEMMA AcceptType ==
    ASSUME SubBase, NEW w \in Workers, session[w].pc # "idle", Accept(w)
    PROVE  /\ reviews' \in Seq(Review)
           /\ Len(reviews') = Len(reviews) + 1
           /\ \A i \in DOMAIN reviews : reviews'[i] = reviews[i]
           /\ reviews'[Len(reviews) + 1].sha = session[w].sha
           /\ reviews'[Len(reviews) + 1].forced = session[w].force
<1>1. PICK v \in Verdicts :
        reviews' = Append(reviews, [sha |-> session[w].sha, state |-> v,
                                    forced |-> session[w].force])
  BY DEF Accept
<1>2. session[w].sha \in Heads /\ session[w].force \in BOOLEAN
  BY DEF SubBase, SubTypeOK, Session, Linked
<1>3. [sha |-> session[w].sha, state |-> v, forced |-> session[w].force] \in Review
  BY <1>2 DEF Review
<1> HIDE DEF Review
<1> QED BY <1>1, <1>3 DEF SubBase, SubTypeOK

\* A dismissal changes the states of reviews, and nothing else.
LEMMA DismissType ==
    ASSUME SubBase, NEW w \in Workers, Dismiss(w)
    PROVE  /\ reviews' \in Seq(Review)
           /\ Len(reviews') = Len(reviews)
           /\ \A i \in DOMAIN reviews : /\ reviews'[i].sha = reviews[i].sha
                                        /\ reviews'[i].forced = reviews[i].forced
<1>1. PICK failed \in SUBSET Superseded(w) :
         reviews' = [i \in DOMAIN reviews |->
                       IF ~NativeDismissal /\ i \in Superseded(w) \ failed
                       THEN [reviews[i] EXCEPT !.state = "DISMISSED"] ELSE reviews[i]]
  BY DEF Dismiss
<1>2. reviews \in Seq(Review)
  BY DEF SubBase, SubTypeOK
<1>3. \A i \in DOMAIN reviews :
        /\ reviews[i] \in Review
        /\ [reviews[i] EXCEPT !.state = "DISMISSED"] \in Review
        /\ [reviews[i] EXCEPT !.state = "DISMISSED"].sha = reviews[i].sha
        /\ [reviews[i] EXCEPT !.state = "DISMISSED"].forced = reviews[i].forced
  <2>1. \A i \in DOMAIN reviews : reviews[i] \in Review
    BY <1>2
  <2>2. \A r \in Review : /\ [r EXCEPT !.state = "DISMISSED"] \in Review
                          /\ [r EXCEPT !.state = "DISMISSED"].sha = r.sha
                          /\ [r EXCEPT !.state = "DISMISSED"].forced = r.forced
    BY DEF Review
  <2> QED BY <2>1, <2>2
<1>4. DOMAIN reviews' = 1..Len(reviews) /\ Len(reviews) \in Nat
  BY <1>1, <1>2
<1>5. \A i \in 1..Len(reviews) : reviews'[i] \in Review
  BY <1>1, <1>2, <1>3
<1>6. reviews' \in [1..Len(reviews) -> Review]
  BY <1>1, <1>4, <1>5
<1>7. reviews' \in Seq(Review) /\ Len(reviews') = Len(reviews)
  BY <1>4, <1>6
<1> QED BY <1>1, <1>3, <1>7

LEMMA SubTypeNext ==
    ASSUME SubBase, [SubNext]_subVars
    PROVE  SubTypeOK'
<1>1. ClaimsTypeOK'
  BY StepOfRegistry, NextInv DEF SubBase, ClaimsInv
<1>2. live' \in Heads
  <2>1. live' = live \/ live' \in Heads
    BY DEF SubNext, subVars, Push, PassTime, Step, Restart, Fetch, List, ClaimStep,
           RejectPayload, EnforceRaises, Render, Create, CreateRejected,
           CreateResponseLost, Mark, Dismiss, prVars
  <2> QED BY <2>1 DEF SubBase, SubTypeOK
<1>3. faults' \subseteq FaultKinds
  <2>1. \A kinds : Fault(kinds) => faults' \subseteq FaultKinds
    BY SubmissionAssumption DEF Fault, SubBase, SubTypeOK
  <2>2. \A w, kinds : ExitReleasing(w, kinds) => faults' \subseteq FaultKinds
    BY <2>1 DEF ExitReleasing
  <2>3. \A w, kinds : AttemptRaises(w, kinds) => faults' \subseteq FaultKinds
    BY <2>1, <2>2 DEF AttemptRaises
  <2>4. faults' = faults \/ faults' \subseteq FaultKinds
    BY <2>1, <2>2, <2>3
       DEF SubNext, subVars, Push, PassTime, Step, Restart, Fetch, List, ClaimStep,
           RejectPayload, EnforceRaises, Render, Create, CreateRejected,
           CreateResponseLost, Mark, Dismiss, prVars
  <2> QED BY <2>4 DEF SubBase, SubTypeOK
<1>4. started' \in 0..MaxSessions
  <2>1. started' = started \/ (started < MaxSessions /\ started' = started + 1)
    BY DEF SubNext, subVars, Push, PassTime, Step, Restart, Fetch, List, ClaimStep,
           RejectPayload, EnforceRaises, Render, Create, CreateRejected,
           CreateResponseLost, Mark, Dismiss, prVars
  <2> QED BY <2>1, SubmissionAssumption DEF SubBase, SubTypeOK
<1>5. reviews' \in Seq(Review)
  <2>1. \/ reviews' = reviews
        \/ \E w \in Workers : session[w].pc # "idle" /\ Accept(w)
        \/ \E w \in Workers : Dismiss(w)
    BY DEF SubNext, subVars, Push, PassTime, Step, Restart, Fetch, List, ClaimStep,
           RejectPayload, EnforceRaises, Render, Create, CreateRejected,
           CreateResponseLost, Mark, prVars, Attempting, At
  <2> QED BY <2>1, AcceptType, DismissType DEF SubBase, SubTypeOK
<1>6. session' \in [Workers -> Session]
  <2>1. ASSUME NEW w \in Workers, Return(w)
        PROVE  session' \in [Workers -> Session]
    BY <2>1, IdleType DEF Return, SubBase, SubTypeOK
  <2>2. ASSUME NEW w \in Workers,
               NEW pc \in {"claimed", "rendered", "inlineFailed", "accepted", "marked"},
               Goto(w, pc)
        PROVE  session' \in [Workers -> Session]
    BY <2>2 DEF Goto, SubBase, SubTypeOK, Session
  <2>3. \A w, kinds : ExitReleasing(w, kinds) => Return(w)
    BY DEF ExitReleasing
  <2>4. \A w, kinds : AttemptRaises(w, kinds) => Return(w) \/ Goto(w, "inlineFailed")
    BY <2>3 DEF AttemptRaises
  <2>5. ASSUME NEW w \in Workers, Fetch(w)
        PROVE  session' \in [Workers -> Session]
    <3>1. PICK sha \in Heads, force \in BOOLEAN, inline \in BOOLEAN :
             session' = [session EXCEPT ![w] =
                  [Idle EXCEPT !.pc = "fetched", !.pr = live, !.sha = sha,
                               !.force = force, !.inline = inline]]
      BY <2>5, SubmissionAssumption DEF Fetch
    <3>2. [Idle EXCEPT !.pc = "fetched", !.pr = live, !.sha = sha,
                       !.force = force, !.inline = inline] \in Session
      BY DEF Idle, Session, SubBase, SubTypeOK
    <3> QED BY <3>1, <3>2 DEF SubBase, SubTypeOK
  <2>6. ASSUME NEW w \in Workers, List(w)
        PROVE  session' \in [Workers -> Session]
    <3>1. CASE session' = [session EXCEPT ![w].pc = "listed", ![w].seen = Len(reviews)]
      <4>1. Len(reviews) \in Nat
        BY DEF SubBase, SubTypeOK
      <4> QED BY <3>1, <4>1 DEF SubBase, SubTypeOK, Session
    <3> QED BY <2>1, <2>6, <3>1 DEF List
  <2>7. \/ UNCHANGED session
        \/ \E w \in Workers : Return(w) \/ Fetch(w) \/ List(w)
        \/ \E w \in Workers, pc \in {"claimed", "rendered", "inlineFailed", "accepted",
                                     "marked"} : Goto(w, pc)
    BY <2>3, <2>4
       DEF SubNext, subVars, Push, PassTime, Step, Restart, ClaimStep, RejectPayload,
           EnforceRaises, Render, Create, CreateRejected, CreateResponseLost, Mark,
           Dismiss, prVars
  <2> QED BY <2>1, <2>2, <2>5, <2>6, <2>7 DEF SubBase, SubTypeOK
<1> QED BY <1>1, <1>2, <1>3, <1>4, <1>5, <1>6 DEF SubTypeOK

-----------------------------------------------------------------------------
(* A submission and its claim                                              *)

\* Where a step leaves its own submission; the others stay where they are.
Moves(w) ==
    \/ Return(w)
    \/ \E pc \in {"claimed", "rendered", "inlineFailed", "accepted", "marked"} : Goto(w, pc)
    \/ Fetch(w)
    \/ At(w, "fetched") /\ session' = [session EXCEPT ![w].pc = "listed",
                                                      ![w].seen = Len(reviews)]

LEMMA StepMoves ==
    ASSUME NEW w \in Workers, Step(w) \/ Restart(w)
    PROVE  Moves(w)
<1>1. \A kinds : ExitReleasing(w, kinds) => Return(w)
  BY DEF ExitReleasing
<1>2. \A kinds : AttemptRaises(w, kinds) => Return(w) \/ Goto(w, "inlineFailed")
  BY <1>1 DEF AttemptRaises
<1> QED BY <1>1, <1>2 DEF Moves, Step, Restart, List, ClaimStep, RejectPayload,
           EnforceRaises, Render, Create, CreateRejected, CreateResponseLost, Mark, Dismiss

LEMMA MovesOne ==
    ASSUME SubBase, NEW w \in Workers, Moves(w)
    PROVE  \A v \in Workers \ {w} : session'[v] = session[v]
BY DEF Moves, Return, Goto, Fetch, SubBase, SubTypeOK

\* A call of one worker leaves the claims of the others in their hands.
LEMMA CallOne ==
    ASSUME SubBase, NEW w \in Workers, Call(w) \/ Crash(w)
    PROVE  \A v \in Workers \ {w} : HeldBy(v)' = HeldBy(v)
<1>1. CASE UNCHANGED claimVars
  BY <1>1 DEF claimVars, HeldBy
<1>2. CASE ClaimStep(w)
  BY <1>2, ClaimStepCalls, ClaimGives DEF HeldBy, SubBase
<1>3. CASE session[w].pc \in Holding /\ Ends(w, ClaimOf(w))
  BY <1>3, ClaimOfHeld, EndsFrame DEF HeldBy, SubBase
<1>4. CASE Crash(w)
  BY <1>4 DEF Crash, HeldBy
<1> QED BY <1>1, <1>2, <1>3, <1>4 DEF Call

\* An ended claim was the only one.
LEMMA EndsHeld ==
    ASSUME SubBase, NEW w \in Workers, session[w].pc \in Holding, Ends(w, ClaimOf(w))
    PROVE  HeldBy(w)' = {}
BY ClaimOfHeld, EndsFrame DEF SubBase, HeldBy

\* The two halves of Linked that concern the worker that moves.
LinkedTo(w) ==
    /\ session[w].pc # "idle" => session[w].sha \in Heads
    /\ session[w].pc \in Holding =>
          \E c \in held : HeldBy(w) = {c} /\ c.head = session[w].sha
    /\ session[w].pc \notin Holding => HeldBy(w) = {}

\* A submission that returns holds nothing any more.
LEMMA ReturnLinked ==
    ASSUME SubBase, NEW w \in Workers, Return(w), HeldBy(w)' = {}
    PROVE  LinkedTo(w)'
BY IdleType DEF Return, LinkedTo, SubBase, SubTypeOK

\* One that goes on with its claims as they were keeps the link.
LEMMA GotoLinked ==
    ASSUME SubBase, NEW w \in Workers, NEW pc \in Holding, session[w].pc \in Holding,
           Goto(w, pc), UNCHANGED held
    PROVE  LinkedTo(w)'
BY DEF Goto, LinkedTo, SubBase, SubTypeOK, Linked, HeldBy, Session, Holding

LEMMA ExitLinked ==
    ASSUME SubBase, NEW w \in Workers, session[w].pc \in Holding,
           NEW kinds, ExitReleasing(w, kinds)
    PROVE  LinkedTo(w)'
BY ExitEnds, EndsHeld, ReturnLinked

LEMMA StepLinked ==
    ASSUME SubBase, NEW w \in Workers, Step(w)
    PROVE  LinkedTo(w)'
<1> DEFINE s == session[w]
<1>1. /\ s \in Session /\ session \in [Workers -> Session]
      /\ s.pc # "idle" => s.sha \in Heads
      /\ s.pc \notin Holding => HeldBy(w) = {}
  BY DEF SubBase, SubTypeOK, Linked
<1>2. CASE Fetch(w)
  <2>1. PICK sha \in Heads, force \in BOOLEAN, inline \in BOOLEAN :
             session' = [session EXCEPT ![w] =
                  [Idle EXCEPT !.pc = "fetched", !.pr = live, !.sha = sha,
                               !.force = force, !.inline = inline]]
    BY <1>2, SubmissionAssumption DEF Fetch
  <2>2. session'[w].pc = "fetched" /\ session'[w].sha = sha
    BY <2>1, <1>1 DEF Idle
  <2>3. HeldBy(w)' = {}
    BY <1>1, <1>2 DEF Fetch, At, Holding, claimVars, HeldBy
  <2> QED BY <2>2, <2>3 DEF LinkedTo, Holding
<1>3. CASE List(w)
  <2>1. HeldBy(w)' = {}
    BY <1>1, <1>3 DEF List, At, Holding, claimVars, HeldBy
  <2>2. CASE Return(w)
    BY <2>1, <2>2, ReturnLinked
  <2>3. CASE session' = [session EXCEPT ![w].pc = "listed", ![w].seen = Len(reviews)]
    <3>1. session'[w].pc = "listed" /\ session'[w].sha = s.sha
      BY <2>3, <1>1 DEF Session
    <3>2. s.sha \in Heads
      BY <1>1, <1>3 DEF List, At
    <3> QED BY <3>1, <3>2, <2>1 DEF LinkedTo, Holding
  <2> QED BY <1>3, <2>2, <2>3 DEF List
<1>4. CASE ClaimStep(w)
  <2>1. /\ s.sha \in Heads /\ s.force \in BOOLEAN
        /\ Claim(w, s.sha, s.force) /\ LockFree(w)
    BY <1>4, ClaimStepCalls
  <2>2. HeldBy(w) = {} /\ s.pc = "listed"
    BY <1>1, <1>4 DEF ClaimStep, At, Holding
  <2>3. CASE held' = held
    <3>1. HeldBy(w)' = {} /\ Return(w)
      BY <2>2, <2>3, <1>4 DEF HeldBy, ClaimStep
    <3> QED BY <3>1, ReturnLinked
  <2>4. CASE held' # held
    <3>1. PICK c : held' = held \cup {c} /\ c.worker = w /\ c.head = s.sha
      BY <2>1, <2>4, ClaimGives DEF SubBase
    <3>2. HeldBy(w)' = {c} /\ c \in held'
      BY <3>1, <2>2 DEF HeldBy
    <3>3. session'[w].pc = "claimed" /\ session'[w].sha = s.sha
      BY <2>4, <1>4, <1>1 DEF ClaimStep, Goto, Session
    <3> QED BY <3>1, <3>2, <3>3, <2>1 DEF LinkedTo, Holding
  <2> QED BY <2>3, <2>4
<1>5. CASE RejectPayload(w)
  BY <1>5, ExitLinked DEF RejectPayload, At, Holding
<1>6. CASE EnforceRaises(w)
  BY <1>6, EndsHeld, ReturnLinked DEF EnforceRaises, At, Holding, Ends
<1>7. CASE Render(w) \/ Create(w)
  BY <1>7, GotoLinked DEF Render, Create, Attempting, At, Holding, claimVars
<1>8. ASSUME NEW kinds, Attempting(w), AttemptRaises(w, kinds)
      PROVE  LinkedTo(w)'
  BY <1>8, ExitLinked, GotoLinked DEF AttemptRaises, Attempting, At, Holding, claimVars
<1>9. CASE CreateRejected(w) \/ CreateResponseLost(w)
  BY <1>8, <1>9 DEF CreateRejected, CreateResponseLost
<1>10. CASE Mark(w)
  <2>1. s.pc \in Holding /\ Ends(w, ClaimOf(w)) /\ s.sha \in Heads
    BY <1>1, <1>10 DEF Mark, At, Holding, Ends
  <2>2. HeldBy(w)' = {}
    BY <2>1, EndsHeld
  <2>3. CASE Goto(w, "marked")
    BY <2>1, <2>2, <2>3, <1>1 DEF Goto, LinkedTo, Session, Holding
  <2> QED BY <2>2, <2>3, <1>10, ReturnLinked DEF Mark
<1>11. CASE Dismiss(w)
  BY <1>1, <1>11, ReturnLinked DEF Dismiss, At, Holding, claimVars, HeldBy
<1> QED BY <1>2, <1>3, <1>4, <1>5, <1>6, <1>7, <1>9, <1>10, <1>11 DEF Step

LEMMA LinkedNext ==
    ASSUME SubBase, [SubNext]_subVars
    PROVE  Linked'
<1>1. ASSUME NEW w \in Workers, Step(w)
      PROVE  Linked'
  <2>1. LinkedTo(w)'
    BY <1>1, StepLinked
  <2>2. \A v \in Workers \ {w} : session'[v] = session[v] /\ HeldBy(v)' = HeldBy(v)
    BY <1>1, StepCall, CallOne, StepMoves, MovesOne
  <2>3. \A v \in Workers \ {w} : LinkedTo(v)'
    BY <2>2 DEF LinkedTo, SubBase, Linked, HeldBy
  <2> QED BY <2>1, <2>3 DEF Linked, LinkedTo
<1>2. ASSUME NEW w \in Workers, Restart(w)
      PROVE  Linked'
  <2>1. Crash(w) /\ Return(w)
    BY <1>2 DEF Restart
  <2>2. LinkedTo(w)'
    BY <2>1, ReturnLinked DEF Crash, HeldBy
  <2>3. \A v \in Workers \ {w} : session'[v] = session[v] /\ HeldBy(v)' = HeldBy(v)
    BY <1>2, <2>1, CallOne, StepMoves, MovesOne
  <2>4. \A v \in Workers \ {w} : LinkedTo(v)'
    BY <2>3 DEF LinkedTo, SubBase, Linked, HeldBy
  <2> QED BY <2>2, <2>4 DEF Linked, LinkedTo
<1>3. CASE Push \/ PassTime \/ UNCHANGED subVars
  BY <1>3 DEF Push, PassTime, subVars, claimVars, registryVars, SubBase, Linked, HeldBy
<1> QED BY <1>1, <1>2, <1>3 DEF SubNext

\* A worker has a client of the registry only where the registry is enabled.
LEMMA EnabledNext ==
    ASSUME SubBase, [SubNext]_subVars
    PROVE  EnabledOnly'
<1>1. ASSUME NEW w \in Workers, Crash(w)
      PROVE  EnabledOnly'
  <2>1. PICK mode \in BootModes : online' = [online EXCEPT ![w] = mode]
    BY <1>1 DEF Crash
  <2> QED BY <2>1 DEF BootModes, EnabledOnly, SubBase, ClaimsInv, ClaimsTypeOK
<1>2. ASSUME NEW w \in Workers, ClaimFallback(w, session[w].sha, session[w].force)
      PROVE  EnabledOnly'
  BY <1>2 DEF ClaimFallback, EnabledOnly, SubBase, ClaimsInv, ClaimsTypeOK
<1>3. ASSUME NEW w \in Workers, Step(w)
      PROVE  EnabledOnly'
  <2>1. CASE UNCHANGED online
    BY <2>1 DEF SubBase, EnabledOnly
  <2>2. CASE ClaimStep(w)
    BY <1>2, <2>1, <2>2 DEF ClaimStep, Claim, ClaimDurable, ClaimLocal
  <2> QED BY <1>3, <2>1, <2>2, StepCall, ClaimOfHeld, EndsFrame DEF Call, claimVars, SubBase
<1>4. CASE Push \/ PassTime \/ UNCHANGED subVars
  BY <1>4 DEF Push, PassTime, subVars, claimVars, registryVars, SubBase, EnabledOnly
<1> QED BY <1>1, <1>3, <1>4 DEF SubNext, Restart

LEMMA BaseInit == SubInit => SubBase
<1> SUFFICES ASSUME SubInit PROVE SubBase
  OBVIOUS
<1>1. ClaimsInv /\ ClaimsTypeOK
  BY InitInv DEF SubInit, ClaimsInv
<1>2. SubTypeOK
  BY <1>1, IdleType, SubmissionAssumption DEF SubInit, SubTypeOK
<1>3. Linked
  BY IdleType DEF SubInit, Linked, ClaimsInit, HeldBy
<1>4. EnabledOnly
  BY DEF SubInit, ClaimsInit, EnabledOnly, BootModes
<1> QED BY <1>1, <1>2, <1>3, <1>4 DEF SubBase

LEMMA BaseNext == SubBase /\ [SubNext]_subVars => SubBase'
BY StepOfRegistry, NextInv, SubTypeNext, LinkedNext, EnabledNext DEF SubBase

\* Every reachable state links the submissions to the claims they hold.
THEOREM SubmissionsLinked == SubSpec => []SubBase
<1> QED BY BaseInit, BaseNext, PTL DEF SubSpec

\* What the submissions of the workers do with the registry is what ReviewClaims
\* allows its callers, step by step.
THEOREM SubmissionUsesRegistry == SubSpec => ClaimsSpec
<1>1. SubInit => ClaimsInit
  BY DEF SubInit
<1>2. SubBase /\ [SubNext]_subVars => [ClaimsNext]_claimVars
  BY StepOfRegistry
<1> QED BY <1>1, <1>2, SubmissionsLinked, PTL DEF SubSpec, ClaimsSpec

-----------------------------------------------------------------------------
(* No claim is left behind                                                 *)

OrphanFaults == {"split", "markRaised", "releaseRaised", "enforceRaised", "crash"}

\* Every document and every entry that runs belongs to a claim some worker still
\* has, in the store that worker writes to.  The worker has to be the one that
\* would end it: a token alone does not say who clears the entry.
DocumentsGuarded ==
    \A h \in Heads : durable[h].status = "processing" =>
        \E c \in held : /\ c.head = h /\ c.token = durable[h].token
                        /\ online[c.worker]

TablesGuarded ==
    \A w \in Workers, h \in Heads : local[w][h].status = "processing" =>
        \E c \in held : /\ c.head = h /\ c.token = local[w][h].token
                        /\ c.worker = w /\ ~online[w]

Guarded == faults \cap OrphanFaults = {} => DocumentsGuarded /\ TablesGuarded

\* What went wrong is never forgotten.
LEMMA FaultsGrow ==
    ASSUME [SubNext]_subVars
    PROVE  faults \subseteq faults'
<1>1. \A kinds : Fault(kinds) => faults \subseteq faults'
  BY DEF Fault
<1>2. \A w, kinds : ExitReleasing(w, kinds) => faults \subseteq faults'
  BY <1>1 DEF ExitReleasing
<1>3. \A w, kinds : AttemptRaises(w, kinds) => faults \subseteq faults'
  BY <1>1, <1>2 DEF AttemptRaises
<1> QED
  BY <1>1, <1>2, <1>3
     DEF SubNext, subVars, Push, PassTime, Step, Restart, Fetch, List, ClaimStep,
         RejectPayload, EnforceRaises, Render, Create, CreateRejected,
         CreateResponseLost, Mark, Dismiss, prVars

\* The calls of a submission in which nothing raised.
LEMMA CleanCall ==
    ASSUME SubBase, NEW w \in Workers, Step(w), faults' \cap OrphanFaults = {}
    PROVE  \/ UNCHANGED claimVars
           \/ ClaimStep(w)
           \/ /\ session[w].pc \in Holding
              /\ Release(w, ClaimOf(w)) \/ MarkSubmitted(w, ClaimOf(w))
<1>1. ASSUME NEW kinds, ExitReleasing(w, kinds)
      PROVE  Release(w, ClaimOf(w))
  BY <1>1 DEF ExitReleasing, Fault, OrphanFaults
<1>2. ASSUME NEW kinds, Attempting(w), AttemptRaises(w, kinds)
      PROVE  UNCHANGED claimVars \/ (session[w].pc \in Holding /\ Release(w, ClaimOf(w)))
  BY <1>1, <1>2 DEF AttemptRaises, Attempting, At, Holding
<1>3. CASE Fetch(w) \/ List(w) \/ Render(w) \/ Create(w) \/ Dismiss(w)
  BY <1>3 DEF Fetch, List, Render, Create, Dismiss
<1>4. CASE RejectPayload(w) \/ EnforceRaises(w) \/ Mark(w)
  BY <1>1, <1>4 DEF RejectPayload, EnforceRaises, Mark, At, Holding, Fault, OrphanFaults
<1>5. CASE CreateRejected(w) \/ CreateResponseLost(w)
  BY <1>2, <1>5 DEF CreateRejected, CreateResponseLost
<1> QED BY <1>3, <1>4, <1>5 DEF Step

LEMMA ClaimGuarded ==
    ASSUME SubBase, DocumentsGuarded, TablesGuarded, NEW w \in Workers, ClaimStep(w),
           faults' \cap OrphanFaults = {}
    PROVE  DocumentsGuarded' /\ TablesGuarded'
<1> DEFINE h == session[w].sha
<1>1. /\ h \in Heads /\ session[w].force \in BOOLEAN
      /\ Claim(w, h, session[w].force) /\ LockFree(w)
  BY ClaimStepCalls
<1>2. CASE UNCHANGED <<durable, local, online, held, issued>>
  BY <1>2 DEF DocumentsGuarded, TablesGuarded
<1>3. ASSUME NEW c, held' = held \cup {c}, c \notin held, c.store = "local", online[w]
      PROVE  FALSE
  <2>1. "split" \in faults'
    BY <1>3 DEF ClaimStep, Fault, SubBase, EnabledOnly
  <2> QED BY <2>1 DEF OrphanFaults
<1>4. ASSUME NEW c, held' = held \cup {c}, c.worker = w, c.head = h, c.token = NextToken,
             online[w], durable' = [durable EXCEPT ![h] = Processing],
             UNCHANGED <<local, online>>
      PROVE  DocumentsGuarded' /\ TablesGuarded'
  <2>1. DocumentsGuarded'
    <3> SUFFICES ASSUME NEW g \in Heads, durable'[g].status = "processing"
                 PROVE  \E d \in held' : /\ d.head = g /\ d.token = durable'[g].token
                                         /\ online'[d.worker]
      BY DEF DocumentsGuarded
    <3>1. CASE g = h
      <4>1. durable'[g].token = NextToken
        BY <1>1, <1>4, <3>1 DEF SubBase, ClaimsInv, ClaimsTypeOK, Processing
      <4> QED BY <1>4, <3>1, <4>1
    <3>2. CASE g # h
      BY <1>4, <3>2 DEF DocumentsGuarded, SubBase, ClaimsInv, ClaimsTypeOK
    <3> QED BY <3>1, <3>2
  <2> QED BY <2>1, <1>4 DEF TablesGuarded
<1>5. ASSUME NEW c, held' = held \cup {c}, c.worker = w, c.head = h, c.token = NextToken,
             ~online[w], local' = [local EXCEPT ![w][h] = Processing],
             UNCHANGED <<durable, online>>
      PROVE  DocumentsGuarded' /\ TablesGuarded'
  <2>1. TablesGuarded'
    <3> SUFFICES ASSUME NEW v \in Workers, NEW g \in Heads,
                        local'[v][g].status = "processing"
                 PROVE  \E d \in held' : /\ d.head = g /\ d.token = local'[v][g].token
                                         /\ d.worker = v /\ ~online'[v]
      BY DEF TablesGuarded
    <3>1. CASE v = w /\ g = h
      <4>1. local'[v][g].token = NextToken
        BY <1>1, <1>5, <3>1 DEF SubBase, ClaimsInv, ClaimsTypeOK, Processing
      <4> QED BY <1>5, <3>1, <4>1
    <3>2. CASE v # w \/ g # h
      <4>1. local'[v][g] = local[v][g]
        BY <1>1, <1>5, <3>2 DEF SubBase, ClaimsInv, ClaimsTypeOK
      <4> QED BY <1>5, <4>1 DEF TablesGuarded
    <3> QED BY <3>1, <3>2
  <2> QED BY <2>1, <1>5 DEF DocumentsGuarded
<1> QED BY <1>1, <1>2, <1>3, <1>4, <1>5, ClaimGives DEF SubBase

\* release() and mark_submitted() of the claim that guards an entry end the entry.
LEMMA EndGuarded ==
    ASSUME SubBase, DocumentsGuarded, TablesGuarded,
           NEW w \in Workers, session[w].pc \in Holding,
           Release(w, ClaimOf(w)) \/ MarkSubmitted(w, ClaimOf(w))
    PROVE  DocumentsGuarded' /\ TablesGuarded'
<1> DEFINE c == ClaimOf(w)
<1>1. /\ c \in held /\ c \in HeldClaim /\ c.worker = w /\ c.head \in Heads
      /\ held' = held \ {c} /\ UNCHANGED online
  BY ClaimOfHeld, EndsFrame DEF SubBase, Ends, HeldClaim
<1>2. \/ /\ online[w] /\ UNCHANGED local
         /\ \A h \in Heads : \/ durable'[h] = durable[h] /\ ~(h = c.head /\ durable[h].token = c.token)
                             \/ durable'[h] = durable[h] /\ durable[h].status # "processing"
                             \/ durable'[h].status # "processing"
      \/ /\ ~online[w] /\ UNCHANGED durable
         /\ \A v \in Workers, h \in Heads :
               \/ local'[v][h] = local[v][h] /\ ~(v = w /\ h = c.head /\ local[v][h].token = c.token)
               \/ local'[v][h].status # "processing"
  <2> HIDE DEF c
  <2>1. CASE Release(w, c) /\ online[w]
    BY <1>1, <2>1 DEF Release, ReleaseEffect, Owns, NoEntry, SubBase, ClaimsInv, ClaimsTypeOK
  <2>2. CASE Release(w, c) /\ ~online[w]
    BY <1>1, <2>2 DEF Release, Owns, NoEntry, SubBase, ClaimsInv, ClaimsTypeOK
  <2>3. CASE MarkSubmitted(w, c) /\ online[w]
    <3>1. \A e \in Entry : Submitted(e).status = "submitted"
      BY DEF Submitted, Entry
    <3> QED BY <1>1, <2>3, <3>1
            DEF MarkSubmitted, MarkEffect, Owns, SubBase, ClaimsInv, ClaimsTypeOK
  <2>4. CASE MarkSubmitted(w, c) /\ ~online[w]
    BY <1>1, <2>4 DEF MarkSubmitted, Owns, SubBase, ClaimsInv, ClaimsTypeOK
  <2> QED BY <2>1, <2>2, <2>3, <2>4 DEF c
<1>3. DocumentsGuarded'
  BY <1>1, <1>2 DEF DocumentsGuarded
<1>4. TablesGuarded'
  BY <1>1, <1>2 DEF TablesGuarded
<1> QED BY <1>3, <1>4

LEMMA GuardedNext == SubBase /\ Guarded /\ [SubNext]_subVars => Guarded'
<1> SUFFICES ASSUME SubBase, Guarded, [SubNext]_subVars, faults' \cap OrphanFaults = {}
             PROVE  DocumentsGuarded' /\ TablesGuarded'
  BY DEF Guarded
<1>1. DocumentsGuarded /\ TablesGuarded
  BY FaultsGrow DEF Guarded
<1>2. CASE UNCHANGED registryVars
  BY <1>1, <1>2 DEF registryVars, DocumentsGuarded, TablesGuarded
<1>3. ASSUME NEW w \in Workers, Step(w)
      PROVE  DocumentsGuarded' /\ TablesGuarded'
  BY <1>1, <1>2, <1>3, CleanCall, ClaimGuarded, EndGuarded DEF claimVars, registryVars
<1>4. ASSUME NEW w \in Workers, Restart(w)
      PROVE  FALSE
  BY <1>4 DEF Restart, Fault, OrphanFaults
<1>5. CASE Push \/ PassTime \/ UNCHANGED subVars
  BY <1>2, <1>5 DEF Push, PassTime, subVars, claimVars, registryVars
<1> QED BY <1>3, <1>4, <1>5 DEF SubNext

\* No path of a submission leaves a claim that runs with no submission behind
\* it, except those where a call of the registry fails, the process dies or the
\* rendering raises.
THEOREM SubmissionLeavesNoClaim == SubSpec => []NoOrphanClaim
<1>1. SubInit => Guarded
  BY DEF SubInit, ClaimsInit, Guarded, DocumentsGuarded, TablesGuarded, NoEntry
<1>2. Guarded => NoOrphanClaim
  BY DEF Guarded, DocumentsGuarded, TablesGuarded, NoOrphanClaim, Orphaned, LeaseRuns,
         OrphanFaults
<1> QED BY <1>1, <1>2, GuardedNext, SubmissionsLinked, PTL DEF SubSpec

-----------------------------------------------------------------------------
(* No second review of a commit                                            *)

\* Where a review of this submission may still be posted.
Posting == {"claimed", "rendered", "inlineFailed"}

DuplicateFaults == {"split", "late", "lostResponse", "erased"}

InForce == \A c \in held : c.store = "durable" /\ Live(c)

\* What an unforced submission can rely on: before its claim, that a review
\* posted since it looked has left a document that will refuse the claim; after
\* it, that there is no review.
Fresh(w) ==
    ~session[w].force =>
        /\ At(w, "listed") => \/ Existing(session[w].sha) = {}
                              \/ Blocks(durable[session[w].sha], FALSE)
        /\ session[w].pc \in Posting => Existing(session[w].sha) = {}

Exclusive ==
    (DurableEnabled /\ faults \cap DuplicateFaults = {}) =>
        InForce /\ AtMostOnce /\ \A w \in Workers : Fresh(w)

\* The reviews of each commit stay the reviews of that commit.
SameReviews ==
    /\ \A s \in Heads : Existing(s)' = Existing(s)
    /\ AtMostOnce => AtMostOnce'

\* A review of the commit of w was added and nothing else.
OneMore(w) ==
    /\ \A s \in Heads \ {session[w].sha} : Existing(s)' = Existing(s)
    /\ (AtMostOnce /\ (session[w].force \/ Existing(session[w].sha) = {})) => AtMostOnce'

LEMMA KeepReviews ==
    ASSUME SubBase, reviews' \in Seq(Review), Len(reviews') = Len(reviews),
           \A i \in DOMAIN reviews : /\ reviews'[i].sha = reviews[i].sha
                                     /\ reviews'[i].forced = reviews[i].forced
    PROVE  SameReviews
<1>1. DOMAIN reviews' = DOMAIN reviews
  BY DEF SubBase, SubTypeOK
<1> QED BY <1>1 DEF SameReviews, Existing, AtMostOnce

LEMMA AddReview ==
    ASSUME SubBase, NEW w \in Workers, session[w].pc # "idle", Accept(w)
    PROVE  OneMore(w)
<1>1. reviews \in Seq(Review) /\ Len(reviews) \in Nat
  BY DEF SubBase, SubTypeOK
<1>2. /\ reviews' \in Seq(Review) /\ Len(reviews') = Len(reviews) + 1
      /\ \A i \in 1..Len(reviews) : reviews'[i] = reviews[i]
      /\ reviews'[Len(reviews) + 1].sha = session[w].sha
      /\ reviews'[Len(reviews) + 1].forced = session[w].force
  BY AcceptType, <1>1
<1>3. DOMAIN reviews = 1..Len(reviews) /\ DOMAIN reviews' = 1..(Len(reviews) + 1)
  BY <1>1, <1>2
<1>4. \A s \in Heads \ {session[w].sha} : Existing(s)' = Existing(s)
  BY <1>1, <1>2, <1>3 DEF Existing
<1>5. ASSUME AtMostOnce, session[w].force \/ Existing(session[w].sha) = {},
             NEW i \in DOMAIN reviews', NEW j \in DOMAIN reviews',
             i < j, reviews'[i].sha = reviews'[j].sha
      PROVE  reviews'[j].forced
  <2>1. i \in 1..Len(reviews)
    BY <1>5, <1>1, <1>3
  <2>2. CASE j \in 1..Len(reviews)
    BY <2>1, <2>2, <1>5, <1>2, <1>3 DEF AtMostOnce
  <2>3. CASE j = Len(reviews) + 1
    <3>1. i \in Existing(session[w].sha)
      BY <2>1, <2>3, <1>5, <1>2, <1>3 DEF Existing
    <3> QED BY <3>1, <2>3, <1>5, <1>2
  <2> QED BY <2>2, <2>3, <1>1, <1>3
<1>6. (AtMostOnce /\ (session[w].force \/ Existing(session[w].sha) = {})) => AtMostOnce'
  BY <1>5 DEF AtMostOnce
<1> QED BY <1>4, <1>6 DEF OneMore

\* What one step of a submission does to the reviews.
LEMMA StepReviews ==
    ASSUME SubBase, NEW w \in Workers, Step(w), "lostResponse" \notin faults'
    PROVE  SameReviews \/ (Create(w) /\ OneMore(w))
<1>1. CASE UNCHANGED reviews
  BY <1>1, KeepReviews DEF SubBase, SubTypeOK
<1>2. CASE Create(w)
  BY <1>2, AddReview DEF Create, Attempting, At
<1>3. CASE Dismiss(w)
  BY <1>3, KeepReviews, DismissType
<1>4. ASSUME CreateResponseLost(w)
      PROVE  FALSE
  <2>1. \A kinds : ExitReleasing(w, {"lostResponse"}) => "lostResponse" \in faults'
    BY DEF ExitReleasing, Fault
  <2> QED BY <1>4, <2>1 DEF CreateResponseLost, AttemptRaises, Fault
<1> QED BY <1>1, <1>2, <1>3, <1>4 DEF Step, Fetch, List, ClaimStep, RejectPayload,
           EnforceRaises, Render, CreateRejected, Mark, prVars

\* A claim in force of the commit, in Firestore.
LEMMA InForceBlocks ==
    ASSUME SubBase, InForce, NEW c \in held
    PROVE  durable[c.head] = EntryOf(c) /\ Blocks(durable[c.head], FALSE)
BY DEF InForce, SubBase, ClaimsInv, Registered, EntryOf, Blocks, LeaseRuns, Live

\* Two submissions of a commit never both hold a claim of it.
LEMMA OneHolder ==
    ASSUME SubBase, InForce, NEW v \in Workers, NEW w \in Workers,
           session[v].pc \in Holding, session[w].pc \in Holding,
           session[v].sha = session[w].sha
    PROVE  v = w
<1>1. /\ ClaimOf(v) \in held /\ ClaimOf(v).worker = v /\ ClaimOf(v).head = session[v].sha
      /\ ClaimOf(w) \in held /\ ClaimOf(w).worker = w /\ ClaimOf(w).head = session[w].sha
  BY ClaimOfHeld
<1>2. EntryOf(ClaimOf(v)) = EntryOf(ClaimOf(w))
  BY <1>1, InForceBlocks
<1>3. ClaimOf(v) = ClaimOf(w)
  BY <1>1, <1>2 DEF EntryOf, SubBase, ClaimsInv, UniqueTokens
<1> QED BY <1>1, <1>3

\* A claim is granted by Firestore, for a whole lease.
LEMMA GrantInForce ==
    ASSUME SubBase, DurableEnabled, InForce, NEW w \in Workers, ClaimStep(w),
           faults' \cap DuplicateFaults = {}
    PROVE  /\ InForce'
           /\ \/ held' = held /\ UNCHANGED durable
              \/ /\ ~Blocks(durable[session[w].sha], session[w].force)
                 /\ durable' = [durable EXCEPT ![session[w].sha] = Processing]
<1> DEFINE h == session[w].sha
<1>1. /\ h \in Heads /\ session[w].force \in BOOLEAN /\ clock' = clock
      /\ Claim(w, h, session[w].force) /\ LockFree(w)
  BY ClaimStepCalls
<1>2. CASE UNCHANGED <<durable, local, online, held, issued>>
  BY <1>1, <1>2 DEF InForce, Live
<1>3. ASSUME NEW c, held' = held \cup {c}, c \notin held, c.store = "local"
      PROVE  FALSE
  <2>1. "split" \in faults'
    BY <1>3 DEF ClaimStep, Fault
  <2> QED BY <2>1 DEF DuplicateFaults
<1>4. ASSUME NEW c, held' = held \cup {c}, c.store = "durable",
             c.lease = clock + LeaseTicks, ~Blocks(durable[h], session[w].force),
             durable' = [durable EXCEPT ![h] = Processing]
      PROVE  InForce'
  <2>1. clock \in Nat /\ clock + LeaseTicks > clock
    BY ClaimsAssumption DEF SubBase, ClaimsInv, ClaimsTypeOK
  <2> QED BY <1>1, <1>4, <2>1 DEF InForce, Live
<1> QED BY <1>1, <1>2, <1>3, <1>4, ClaimGives DEF SubBase

\* A document that refuses unforced claims goes on refusing them, unless it is
\* the claim of a commit without a review.
LEMMA BlocksStay ==
    ASSUME SubBase, DurableEnabled, InForce, NEW w \in Workers, Step(w),
           faults' \cap DuplicateFaults = {},
           NEW s \in Heads, Existing(s) # {}, Blocks(durable[s], FALSE)
    PROVE  Blocks(durable[s], FALSE)'
<1>0. clock \in Nat /\ LeaseTicks \in Nat \ {0} /\ durable \in [Heads -> Entry]
  BY ClaimsAssumption DEF SubBase, ClaimsInv, ClaimsTypeOK
<1>1. CASE clock' = clock /\ durable'[s] = durable[s]
  BY <1>1 DEF Blocks, LeaseRuns
<1>2. CASE ClaimStep(w)
  <2>1. CASE UNCHANGED durable
    BY <1>1, <1>2, <2>1, ClaimStepCalls
  <2>2. CASE durable' = [durable EXCEPT ![session[w].sha] = Processing]
    BY <1>0, <1>1, <1>2, <2>2, ClaimStepCalls DEF Processing, Blocks, LeaseRuns
  <2> QED BY <1>2, <2>1, <2>2, GrantInForce
<1>3. CASE session[w].pc \in Holding /\ Ends(w, ClaimOf(w)) /\ clock' = clock
  <2> DEFINE c == ClaimOf(w)
  <2>1. c.head = session[w].sha /\ c.head \in Heads
    BY <1>3, ClaimOfHeld DEF HeldClaim
  <2>2. CASE UNCHANGED durable
    BY <1>1, <1>3, <2>2
  <2>3. CASE MarkEffect(c.head, c)
    <3>1. \A e \in Entry : Submitted(e).status = "submitted"
      BY DEF Submitted, Entry
    <3>2. durable'[s] = durable[s] \/ durable'[s].status = "submitted"
      BY <1>0, <2>1, <2>3, <3>1 DEF MarkEffect
    <3> QED BY <1>1, <1>3, <3>2 DEF Blocks
  <2>4. CASE c.head # s /\ ReleaseEffect(c.head, c)
    BY <1>0, <1>1, <1>3, <2>1, <2>4 DEF ReleaseEffect
  <2>5. ASSUME c.head = s, Release(w, c) \/ ReleaseRaises(w, c), ~UNCHANGED durable
        PROVE  FALSE
    <3>1. "erased" \in Erasing(w)
      BY <2>1, <2>5 DEF Erasing
    <3>2. ASSUME NEW kinds, ExitReleasing(w, kinds)
          PROVE  "erased" \in faults'
      BY <3>1, <3>2 DEF ExitReleasing, Fault
    <3>3. ASSUME NEW kinds, AttemptRaises(w, kinds)
          PROVE  "erased" \in faults'
      BY <2>5, <3>2, <3>3 DEF AttemptRaises, claimVars
    <3>4. "erased" \in faults'
      <4>1. CASE RejectPayload(w)
        BY <3>2, <4>1 DEF RejectPayload
      <4>2. CASE CreateRejected(w) \/ CreateResponseLost(w)
        BY <3>3, <4>2 DEF CreateRejected, CreateResponseLost
      <4>3. CASE Mark(w)
        <5>1. MarkEffect(c.head, c)
          BY <2>5, <4>3 DEF Mark, MarkSubmitted, MarkRaises
        <5>2. durable'[s] = durable[s] \/ durable'[s] = Submitted(durable[s])
          BY <1>0, <2>1, <2>5, <5>1 DEF MarkEffect
        <5>3. UNCHANGED durable \/ durable'[s] # durable[s]
          BY <1>0, <2>1, <2>5, <5>1 DEF MarkEffect
        <5>4. Submitted(durable[s]).status = "submitted" /\ Submitted(durable[s]) # NoEntry
          BY <1>0 DEF Submitted, Entry, NoEntry
        <5>5. ReleaseEffect(c.head, c)
          BY <2>5 DEF Release, ReleaseRaises
        <5>6. durable'[s] = durable[s] \/ durable'[s] = NoEntry
          BY <1>0, <2>1, <2>5, <5>5 DEF ReleaseEffect
        <5> QED BY <2>5, <5>2, <5>3, <5>4, <5>6
      <4>4. CASE UNCHANGED claimVars \/ ClaimStep(w) \/ EnforceRaises(w)
        <5>1. ~ClaimStep(w)
          BY <1>3 DEF ClaimStep, At, Holding
        <5> QED BY <2>5, <4>4, <5>1 DEF EnforceRaises, Abandon, claimVars
      <4> QED BY <4>1, <4>2, <4>3, <4>4
              DEF Step, Fetch, List, Render, Create, Dismiss
    <3> QED BY <3>4 DEF DuplicateFaults
  <2> HIDE DEF c
  <2>6. UNCHANGED durable \/ MarkEffect(c.head, c) \/
        (ReleaseEffect(c.head, c) /\ (Release(w, c) \/ ReleaseRaises(w, c)))
    BY <1>3 DEF Ends, MarkSubmitted, MarkRaises, Release, ReleaseRaises, Abandon, c
  <2> QED BY <2>2, <2>3, <2>4, <2>5, <2>6
<1> QED BY <1>1, <1>2, <1>3, StepCall DEF Call, claimVars

\* The claims in force after a step: those that were, and the one just granted.
LEMMA StepInForce ==
    ASSUME SubBase, DurableEnabled, InForce, NEW w \in Workers, Step(w),
           faults' \cap DuplicateFaults = {}
    PROVE  InForce'
<1>1. CASE UNCHANGED claimVars
  BY <1>1 DEF claimVars, InForce, Live
<1>2. CASE session[w].pc \in Holding /\ Ends(w, ClaimOf(w)) /\ clock' = clock
  BY <1>2, ClaimOfHeld, EndsFrame DEF InForce, Live, SubBase
<1> QED BY <1>1, <1>2, StepCall, GrantInForce DEF Call

\* The step of another worker.
LEMMA OthersFresh ==
    ASSUME SubBase, DurableEnabled, InForce, NEW w \in Workers, Step(w),
           faults' \cap DuplicateFaults = {},
           NEW v \in Workers \ {w}, Fresh(v)
    PROVE  Fresh(v)'
<1> PICK s : s = session[v].sha
  OBVIOUS
<1>1. session'[v] = session[v]
  BY StepMoves, MovesOne
<1> SUFFICES ASSUME ~session[v].force, session[v].pc \in Posting \cup {"listed"}
             PROVE  /\ At(v, "listed") => Existing(s)' = {} \/ Blocks(durable[s], FALSE)'
                    /\ session[v].pc \in Posting => Existing(s)' = {}
  BY <1>1 DEF Fresh, At
<1>2. s \in Heads
  BY DEF SubBase, Linked, Posting
<1>3. Existing(s) # {} /\ At(v, "listed") => Blocks(durable[s], FALSE)'
  BY <1>2, BlocksStay DEF Fresh
<1>4. CASE SameReviews
  BY <1>2, <1>3, <1>4 DEF SameReviews, Fresh
<1>5. CASE Create(w) /\ OneMore(w)
  <2>1. CASE session[w].sha # s
    BY <1>2, <1>3, <1>5, <2>1 DEF OneMore, Fresh
  <2>2. CASE session[w].sha = s
    <3>1. session[w].pc \in Holding /\ UNCHANGED <<durable, clock>>
      BY <1>5 DEF Create, Attempting, At, Holding, claimVars
    <3>2. session[v].pc \notin Posting
      BY <2>2, <3>1, OneHolder DEF Posting, Holding
    <3>3. Blocks(durable[s], FALSE)
      <4>1. ClaimOf(w) \in held /\ ClaimOf(w).head = s
        BY <2>2, <3>1, ClaimOfHeld
      <4> QED BY <4>1, InForceBlocks
    <3> QED BY <3>1, <3>2, <3>3 DEF Blocks, LeaseRuns
  <2> QED BY <2>1, <2>2
<1> QED BY <1>4, <1>5, StepReviews DEF DuplicateFaults

\* The step of the submission itself.
LEMMA SelfFresh ==
    ASSUME SubBase, DurableEnabled, InForce, NEW w \in Workers, Step(w),
           faults' \cap DuplicateFaults = {}, Fresh(w)
    PROVE  Fresh(w)'
<1>0. session \in [Workers -> Session]
  BY DEF SubBase, SubTypeOK
<1>1. CASE Return(w)
  BY <1>0, <1>1 DEF Return, Idle, Fresh, At, Posting
<1>2. CASE Fetch(w)
  <2>1. session'[w].pc = "fetched"
    BY <1>0, <1>2 DEF Fetch, Idle
  <2> QED BY <2>1 DEF Fresh, At, Posting
<1>3. CASE List(w) /\ ~Return(w)
  <2>1. /\ session' = [session EXCEPT ![w].pc = "listed", ![w].seen = Len(reviews)]
        /\ ~Duplicate(w) /\ UNCHANGED reviews
    BY <1>3 DEF List, prVars
  <2>2. /\ session'[w].pc = "listed" /\ session'[w].sha = session[w].sha
        /\ session'[w].force = session[w].force
    BY <1>0, <2>1 DEF Session
  <2> QED BY <2>1, <2>2 DEF Duplicate, Fresh, At, Posting, Existing
<1>4. CASE ClaimStep(w) /\ ~Return(w)
  <2>1. At(w, "listed") /\ held' # held /\ Goto(w, "claimed") /\ UNCHANGED reviews
    BY <1>4 DEF ClaimStep, prVars
  <2>2. ~Blocks(durable[session[w].sha], session[w].force)
    BY <1>4, <2>1, GrantInForce
  <2>3. /\ session'[w].pc = "claimed" /\ session'[w].sha = session[w].sha
        /\ session'[w].force = session[w].force
    BY <1>0, <2>1 DEF Goto, Session
  <2>4. session[w].force \in BOOLEAN
    BY <1>0 DEF Session
  <2>5. ~session[w].force => ~Blocks(durable[session[w].sha], FALSE)
    BY <2>2, <2>4 DEF Blocks
  <2> QED BY <2>1, <2>3, <2>5 DEF Fresh, At, Existing
<1>5. ASSUME NEW pc \in {"rendered", "inlineFailed"}, session[w].pc \in Posting,
             Goto(w, pc), UNCHANGED reviews
      PROVE  Fresh(w)'
  <2>1. /\ session'[w].pc = pc /\ session'[w].sha = session[w].sha
        /\ session'[w].force = session[w].force
    BY <1>0, <1>5 DEF Goto, Session
  <2> QED BY <1>5, <2>1 DEF Fresh, At, Existing
<1>6. ASSUME NEW pc \in {"accepted", "marked"}, Goto(w, pc)
      PROVE  Fresh(w)'
  BY <1>0, <1>6 DEF Goto, Session, Fresh, At, Posting
<1>7. CASE Render(w)
  BY <1>5, <1>7 DEF Render, At, Posting, prVars
<1>8. CASE CreateRejected(w)
  <2>1. Return(w) \/ (Goto(w, "inlineFailed") /\ UNCHANGED reviews)
    BY <1>8 DEF CreateRejected, AttemptRaises, ExitReleasing, prVars
  <2> QED BY <1>1, <1>5, <1>8, <2>1 DEF CreateRejected, Attempting, At, Posting
<1>9. ASSUME CreateResponseLost(w)
      PROVE  FALSE
  BY <1>9 DEF CreateResponseLost, AttemptRaises, ExitReleasing, Fault, DuplicateFaults
<1>10. CASE RejectPayload(w) \/ EnforceRaises(w) \/ Create(w) \/ Mark(w) \/ Dismiss(w)
  BY <1>1, <1>6, <1>10 DEF RejectPayload, EnforceRaises, Create, Mark, Dismiss, ExitReleasing
<1> QED BY <1>1, <1>2, <1>3, <1>4, <1>7, <1>8, <1>9, <1>10 DEF Step

LEMMA StepExclusive ==
    ASSUME SubBase, DurableEnabled, InForce, AtMostOnce, \A v \in Workers : Fresh(v),
           NEW w \in Workers, Step(w), faults' \cap DuplicateFaults = {}
    PROVE  InForce' /\ AtMostOnce' /\ \A v \in Workers : Fresh(v)'
<1>1. AtMostOnce'
  <2>1. CASE Create(w) /\ OneMore(w)
    <3>1. session[w].pc \in Posting
      BY <2>1 DEF Create, Attempting, At, Posting
    <3> QED BY <2>1, <3>1 DEF OneMore, Fresh
  <2> QED BY <2>1, StepReviews DEF SameReviews, DuplicateFaults
<1> QED BY <1>1, StepInForce, OthersFresh, SelfFresh

\* A crash drops the claims of the process, and leaves its documents.
LEMMA RestartExclusive ==
    ASSUME SubBase, InForce, AtMostOnce, \A v \in Workers : Fresh(v),
           NEW w \in Workers, Restart(w)
    PROVE  InForce' /\ AtMostOnce' /\ \A v \in Workers : Fresh(v)'
<1>1. Crash(w) /\ Return(w) /\ UNCHANGED <<clock, reviews, durable>>
  BY DEF Restart, Crash, prVars
<1>2. InForce' /\ AtMostOnce'
  BY <1>1 DEF Crash, InForce, Live, AtMostOnce
<1>3. \A v \in Workers \ {w} : session'[v] = session[v]
  BY StepMoves, MovesOne
<1>4. session'[w] = Idle
  BY <1>1 DEF Return, SubBase, SubTypeOK
<1> QED BY <1>1, <1>2, <1>3, <1>4 DEF Fresh, At, Existing, Blocks, LeaseRuns, Idle, Posting

\* No lease on which a submission relies runs out.
LEMMA PassTimeExclusive ==
    ASSUME SubBase, InForce, AtMostOnce, \A v \in Workers : Fresh(v),
           PassTime, faults' \cap DuplicateFaults = {}
    PROVE  InForce' /\ AtMostOnce' /\ \A v \in Workers : Fresh(v)'
<1>1. /\ clock \in Nat /\ clock' = clock + 1
      /\ UNCHANGED <<durable, held, reviews, session>>
      /\ durable \in [Heads -> Entry]
  BY DEF PassTime, Tick, registryVars, prVars, SubBase, ClaimsInv, ClaimsTypeOK
<1>2. LeaseEnds => \A w \in Workers : ~Midway(w)
  BY DEF PassTime, Fault, DuplicateFaults
<1>3. InForce'
  <2> SUFFICES ASSUME NEW c \in held PROVE c.store = "durable" /\ c.lease > clock'
    BY <1>1 DEF InForce, Live
  <2>1. /\ c.store = "durable" /\ c.lease > clock /\ c.lease \in Nat
        /\ c.worker \in Workers /\ c.head \in Heads /\ durable[c.head] = EntryOf(c)
    BY InForceBlocks DEF InForce, Live, SubBase, ClaimsInv, ClaimsTypeOK, HeldClaim
  <2>2. session[c.worker].pc \in Holding
    BY <2>1 DEF SubBase, Linked, HeldBy
  <2>3. c.lease # clock + 1
    BY <1>2, <2>1, <2>2 DEF LeaseEnds, Midway, Holding, EntryOf
  <2> QED BY <1>1, <2>1, <2>3
<1>4. AtMostOnce'
  BY <1>1 DEF AtMostOnce
<1>5. ASSUME NEW v \in Workers
      PROVE  Fresh(v)'
  <2>1. ASSUME ~session[v].force, At(v, "listed"), Blocks(durable[session[v].sha], FALSE)
        PROVE  Blocks(durable[session[v].sha], FALSE)'
    <3> DEFINE e == durable[session[v].sha]
    <3>1. session[v].sha \in Heads /\ e \in Entry
      BY <1>1, <2>1 DEF SubBase, Linked, At
    <3>2. ~(e.status = "processing" /\ e.lease = clock + 1)
      BY <1>2, <2>1, <3>1 DEF LeaseEnds, Midway, At
    <3> QED BY <1>1, <2>1, <3>1, <3>2 DEF Blocks, LeaseRuns, Entry
  <2> QED BY <1>1, <2>1 DEF Fresh, At, Existing
<1> QED BY <1>3, <1>4, <1>5

LEMMA ExclusiveNext == SubBase /\ Exclusive /\ [SubNext]_subVars => Exclusive'
<1> SUFFICES ASSUME SubBase, Exclusive, [SubNext]_subVars,
                    DurableEnabled, faults' \cap DuplicateFaults = {}
             PROVE  InForce' /\ AtMostOnce' /\ \A v \in Workers : Fresh(v)'
  BY DEF Exclusive
<1>1. InForce /\ AtMostOnce /\ \A v \in Workers : Fresh(v)
  BY FaultsGrow DEF Exclusive
<1>2. CASE Push \/ UNCHANGED subVars
  BY <1>1, <1>2 DEF Push, subVars, claimVars, InForce, Live, AtMostOnce, Fresh, At,
                    Existing, Blocks, LeaseRuns
<1> QED BY <1>1, <1>2, StepExclusive, RestartExclusive, PassTimeExclusive DEF SubNext

\* Where the workers share the durable registry, no commit gets a second review
\* nobody asked for, whatever the workers, pushes and crashes do, unless a
\* worker lost its registry, outlived its lease, a response was lost, or a failed
\* forced submission erased the claim of a reviewed commit.
THEOREM SubmissionAtMostOnce ==
    ASSUME DurableEnabled
    PROVE  SubSpec => []NoUnforcedDuplicate
<1>1. SubInit => Exclusive
  <2> SUFFICES ASSUME SubInit PROVE InForce /\ AtMostOnce /\ \A w \in Workers : Fresh(w)
    BY DEF Exclusive
  <2>1. \A w \in Workers : session[w] = Idle
    BY DEF SubInit
  <2>2. ASSUME NEW w \in Workers
        PROVE  Fresh(w)
    <3>1. session[w].pc = "idle"
      BY <2>1, IdleType
    <3> QED BY <3>1 DEF Fresh, At, Posting
  <2>3. InForce
    BY DEF SubInit, ClaimsInit, InForce
  <2>4. AtMostOnce
    BY DEF SubInit, AtMostOnce
  <2> QED BY <2>2, <2>3, <2>4
<1>2. Exclusive => NoUnforcedDuplicate
  BY DEF Exclusive, NoUnforcedDuplicate, DuplicateFaults
<1> QED BY <1>1, <1>2, ExclusiveNext, SubmissionsLinked, PTL DEF SubSpec

-----------------------------------------------------------------------------
(* One worker                                                              *)

\* The submission that is about to post found no review, and no other
\* submission can post one.
Alone == \A w \in Workers :
    (~session[w].force /\ session[w].pc \in Posting \cup {"listed"}) =>
        Existing(session[w].sha) = {}

SingleInv ==
    (Cardinality(Workers) = 1 /\ "lostResponse" \notin faults) => Alone /\ AtMostOnce

LEMMA OneWorker ==
    ASSUME Cardinality(Workers) = 1
    PROVE  \E w \in Workers : Workers = {w}
BY SubmissionAssumption, FS_Singleton

\* Where a step leaves a submission that may still post.
LEMMA StayPosting ==
    ASSUME SubBase, NEW w \in Workers, Step(w),
           session'[w].pc \in Posting \cup {"listed"}
    PROVE  /\ session'[w].sha = session[w].sha /\ session'[w].force = session[w].force
           /\ session[w].pc # "idle" /\ ~Create(w)
           /\ \/ List(w) /\ ~Duplicate(w) /\ session'[w].seen = Len(reviews)
              \/ /\ session[w].pc \in Posting \cup {"listed"}
                 /\ session'[w].seen = session[w].seen
           /\ Len(reviews) = Len(reviews') \/ CreateResponseLost(w)
<1>0. session \in [Workers -> Session]
  BY DEF SubBase, SubTypeOK
<1>1. ~Return(w)
  BY <1>0, IdleType DEF Return, Posting, Idle
<1>2. ~Fetch(w)
  BY <1>0 DEF Fetch, Posting, Idle
<1>3. ~Create(w) /\ ~Mark(w) /\ ~Dismiss(w)
  BY <1>0, <1>1 DEF Create, Mark, Dismiss, Goto, Posting, Session
<1>4. ~RejectPayload(w) /\ ~EnforceRaises(w)
  BY <1>1 DEF RejectPayload, EnforceRaises, ExitReleasing
<1>5. CASE List(w)
  BY <1>0, <1>1, <1>3, <1>5 DEF List, At, Session, prVars
<1>6. ASSUME NEW pc, Goto(w, pc), session[w].pc \in Posting \cup {"listed"}
      PROVE  /\ session'[w].sha = session[w].sha /\ session'[w].force = session[w].force
             /\ session'[w].seen = session[w].seen /\ session[w].pc # "idle"
  BY <1>0, <1>6 DEF Goto, Session, Posting
<1>7. CASE ClaimStep(w) \/ Render(w) \/ CreateRejected(w)
  <2>1. session[w].pc \in Posting \cup {"listed"} /\ UNCHANGED reviews
    BY <1>7 DEF ClaimStep, Render, CreateRejected, Attempting, At, Posting, prVars
  <2>2. \E pc : Goto(w, pc)
    BY <1>1, <1>7 DEF ClaimStep, Render, CreateRejected, AttemptRaises, ExitReleasing
  <2> QED BY <1>3, <1>6, <2>1, <2>2
<1>8. CASE CreateResponseLost(w)
  <2>1. session[w].pc \in Posting
    BY <1>8 DEF CreateResponseLost, Attempting, At, Posting
  <2>2. \E pc : Goto(w, pc)
    BY <1>1, <1>8 DEF CreateResponseLost, AttemptRaises, ExitReleasing
  <2> QED BY <1>3, <1>6, <1>8, <2>1, <2>2
<1> QED BY <1>2, <1>3, <1>4, <1>5, <1>7, <1>8 DEF Step

LEMMA NoResponseLost ==
    ASSUME NEW w \in Workers, CreateResponseLost(w)
    PROVE  "lostResponse" \in faults'
BY DEF CreateResponseLost, AttemptRaises, ExitReleasing, Fault

LEMMA SingleNext == SubBase /\ SingleInv /\ [SubNext]_subVars => SingleInv'
<1> SUFFICES ASSUME SubBase, SingleInv, [SubNext]_subVars,
                    Cardinality(Workers) = 1, "lostResponse" \notin faults'
             PROVE  Alone' /\ AtMostOnce'
  BY DEF SingleInv
<1>1. Alone /\ AtMostOnce
  BY FaultsGrow DEF SingleInv
<1>2. PICK w \in Workers : Workers = {w}
  BY OneWorker
<1>3. CASE Step(w)
  <2>1. AtMostOnce'
    <3>1. Create(w) => (~session[w].force => Existing(session[w].sha) = {})
      BY <1>1 DEF Create, Attempting, At, Posting, Alone
    <3>2. session[w].force \in BOOLEAN
      BY DEF SubBase, SubTypeOK, Session
    <3> QED BY <1>1, <1>3, <3>1, <3>2, StepReviews DEF SameReviews, OneMore
  <2>2. Alone'
    <3> SUFFICES ASSUME NEW s, s = session'[w].sha, ~session'[w].force,
                        session'[w].pc \in Posting \cup {"listed"}
                 PROVE  Existing(s)' = {}
      BY <1>2 DEF Alone, Existing
    <3>1. session[w].sha = s /\ s \in Heads /\ SameReviews
      BY <1>3, StayPosting, StepReviews DEF SubBase, Linked
    <3>2. Existing(s) = {}
      BY <1>1, <1>3, StayPosting DEF Alone, Duplicate
    <3> QED BY <3>1, <3>2 DEF SameReviews
  <2> QED BY <2>1, <2>2
<1>4. CASE Restart(w)
  <2>1. session'[w] = Idle /\ UNCHANGED reviews
    BY <1>4 DEF Restart, Return, SubBase, SubTypeOK, prVars
  <2> QED BY <1>1, <1>2, <2>1, IdleType DEF Alone, AtMostOnce, Posting, Holding
<1>5. CASE Push \/ PassTime \/ UNCHANGED subVars
  BY <1>1, <1>5 DEF Push, PassTime, subVars, prVars, Alone, AtMostOnce, Existing
<1> QED BY <1>2, <1>3, <1>4, <1>5 DEF SubNext

\* With a single worker the process lock and the list of reviews are enough to
\* keep the reviews of a commit at one, however the registry fails.
THEOREM SingleWorkerAtMostOnce == SubSpec => []SingleWorkerNoDuplicate
<1>1. SubInit => SingleInv
  <2> SUFFICES ASSUME SubInit PROVE Alone /\ AtMostOnce
    BY DEF SingleInv
  <2>1. AtMostOnce
    BY DEF SubInit, AtMostOnce
  <2>2. \A w \in Workers : session[w].pc = "idle"
    BY IdleType DEF SubInit
  <2> QED BY <2>1, <2>2 DEF Alone, Posting
<1>2. SingleInv => SingleWorkerNoDuplicate
  BY DEF SingleInv, SingleWorkerNoDuplicate
<1> QED BY <1>1, <1>2, SingleNext, SubmissionsLinked, PTL DEF SubSpec

-----------------------------------------------------------------------------
(* Superseded objections                                                   *)

ObjectionFaults == {"lostResponse", "markRaised", "dismissFailed", "crash"}

\* How many reviews the submission has yet to look at: none before it posts, its
\* own one after.
SeenAll ==
    \A w \in Workers :
        /\ session[w].pc \in Posting \cup {"listed"} => session[w].seen = Len(reviews)
        /\ session[w].pc \in {"accepted", "marked"} => session[w].seen + 1 = Len(reviews)

LastObjects ==
    \A i \in DOMAIN reviews : reviews[i].state = "CHANGES_REQUESTED" => i = Len(reviews)

ObjectionsInv ==
    (/\ Cardinality(Workers) = 1 /\ ~NativeDismissal
     /\ faults \cap ObjectionFaults = {})
        => /\ SeenAll
           /\ (\A w \in Workers : session[w].pc \notin {"accepted", "marked"}) => LastObjects

\* The reviews a step leaves in place.
LEMMA StepLength ==
    ASSUME SubBase, NEW w \in Workers, Step(w), ~Create(w), ~CreateResponseLost(w)
    PROVE  /\ Len(reviews') = Len(reviews) /\ DOMAIN reviews' = DOMAIN reviews
           /\ ~Dismiss(w) => UNCHANGED reviews
<1>1. CASE UNCHANGED reviews
  BY <1>1
<1>2. CASE Dismiss(w)
  <2>1. reviews \in Seq(Review) /\ reviews' \in Seq(Review) /\ Len(reviews') = Len(reviews)
    BY <1>2, DismissType DEF SubBase, SubTypeOK
  <2> QED BY <1>2, <2>1
<1> QED BY <1>1, <1>2 DEF Step, Fetch, List, ClaimStep, RejectPayload, EnforceRaises,
           Render, CreateRejected, Mark, prVars

LEMMA ObjectionsNext == SubBase /\ ObjectionsInv /\ [SubNext]_subVars => ObjectionsInv'
<1> SUFFICES ASSUME SubBase, ObjectionsInv, [SubNext]_subVars,
                    Cardinality(Workers) = 1, ~NativeDismissal,
                    faults' \cap ObjectionFaults = {}
             PROVE  /\ SeenAll'
                    /\ (\A w \in Workers : session'[w].pc \notin {"accepted", "marked"})
                          => LastObjects'
  BY DEF ObjectionsInv
<1>1. /\ SeenAll
      /\ (\A w \in Workers : session[w].pc \notin {"accepted", "marked"}) => LastObjects
  BY FaultsGrow DEF ObjectionsInv
<1>2. PICK w \in Workers : Workers = {w}
  BY OneWorker
<1>0. /\ session \in [Workers -> Session] /\ reviews \in Seq(Review)
      /\ Len(reviews) \in Nat
  BY DEF SubBase, SubTypeOK
<1>3. CASE Create(w)
  <2>1. session[w].seen = Len(reviews)
    BY <1>1, <1>3 DEF Create, Attempting, At, SeenAll, Posting
  <2>2. session'[w].pc = "accepted" /\ session'[w].seen = session[w].seen
    BY <1>0, <1>3 DEF Create, Goto, Session
  <2>3. Len(reviews') = Len(reviews) + 1
    BY <1>3, AcceptType DEF Create, Attempting, At
  <2> QED BY <1>2, <2>1, <2>2, <2>3 DEF SeenAll, Posting
<1>4. CASE Mark(w)
  <2>1. Goto(w, "marked") /\ UNCHANGED reviews
    <3>1. ~Return(w) \/ "markRaised" \notin faults'
      BY DEF ObjectionFaults
    <3> QED BY <1>4, <3>1 DEF Mark, Fault, prVars, ObjectionFaults
  <2>2. session'[w].pc = "marked" /\ session'[w].seen = session[w].seen
    BY <1>0, <2>1 DEF Goto, Session
  <2> QED BY <1>1, <1>2, <1>4, <2>1, <2>2 DEF Mark, At, SeenAll, Posting
<1>5. CASE Dismiss(w)
  <2>1. session'[w].pc = "idle"
    BY <1>0, <1>5, IdleType DEF Dismiss, Return
  <2>2. session[w].seen + 1 = Len(reviews) /\ session[w].seen \in Nat
    BY <1>0, <1>1, <1>5 DEF Dismiss, At, SeenAll, Session
  <2>3. /\ DOMAIN reviews' = 1..Len(reviews) /\ Len(reviews') = Len(reviews)
        /\ DOMAIN reviews = 1..Len(reviews)
    BY <1>0, <1>5, DismissType
  <2>4. reviews' = [i \in DOMAIN reviews |->
                       IF i \in Superseded(w)
                       THEN [reviews[i] EXCEPT !.state = "DISMISSED"] ELSE reviews[i]]
    <3>1. PICK failed \in SUBSET Superseded(w) :
            /\ reviews' = [i \in DOMAIN reviews |->
                           IF ~NativeDismissal /\ i \in Superseded(w) \ failed
                           THEN [reviews[i] EXCEPT !.state = "DISMISSED"] ELSE reviews[i]]
            /\ Fault(IF failed = {} THEN {} ELSE {"dismissFailed"})
      BY <1>5 DEF Dismiss
    <3>2. failed = {}
      BY <3>1 DEF Fault, ObjectionFaults
    <3> QED BY <3>1, <3>2
  <2>5. ASSUME NEW i \in DOMAIN reviews, reviews'[i].state = "CHANGES_REQUESTED",
               i # Len(reviews)
        PROVE  FALSE
    <3>1. i \in 1..session[w].seen /\ reviews[i] \in Review
      BY <1>0, <2>2, <2>3, <2>5
    <3>2. i \notin Superseded(w)
      <4>1. [reviews[i] EXCEPT !.state = "DISMISSED"].state = "DISMISSED"
        BY <3>1 DEF Review
      <4> QED BY <2>4, <2>5, <4>1
    <3> QED BY <2>4, <2>5, <3>1, <3>2 DEF Superseded
  <2> QED BY <1>2, <2>1, <2>3, <2>5 DEF SeenAll, LastObjects, Posting
<1>6. ASSUME Step(w), ~Create(w), ~Mark(w), ~Dismiss(w)
      PROVE  SeenAll' /\ LastObjects'
  <2>1. ~CreateResponseLost(w)
    BY NoResponseLost DEF ObjectionFaults
  <2>2. UNCHANGED reviews
    BY <1>6, <2>1, StepLength
  <2>3. session[w].pc \notin {"accepted", "marked"}
    BY <1>6, <2>1 DEF Step, Fetch, List, ClaimStep, RejectPayload, EnforceRaises, Render,
       CreateRejected, Attempting, At
  <2>4. session'[w].pc \notin {"accepted", "marked"}
    <3>1. \A kinds : ExitReleasing(w, kinds) => Return(w)
      BY DEF ExitReleasing
    <3>2. Return(w) => session'[w].pc = "idle"
      BY <1>0, IdleType DEF Return
    <3>3. \A pc \in {"claimed", "rendered", "inlineFailed"} : Goto(w, pc) => session'[w].pc = pc
      BY <1>0 DEF Goto, Session
    <3>4. Fetch(w) => session'[w].pc = "fetched"
      BY <1>0 DEF Fetch, Idle
    <3>5. List(w) => session'[w].pc \in {"idle", "listed"}
      BY <1>0, <3>2 DEF List, Session
    <3> QED BY <1>6, <2>1, <3>1, <3>2, <3>3, <3>4, <3>5
            DEF Step, ClaimStep, RejectPayload, EnforceRaises, Render, CreateRejected,
                AttemptRaises
  <2>5. SeenAll'
    <3>1. session'[w].pc \in Posting \cup {"listed"} => session'[w].seen = Len(reviews)
      BY <1>1, <1>6, StayPosting DEF SeenAll
    <3> QED BY <1>2, <2>2, <2>4, <3>1 DEF SeenAll
  <2> QED BY <1>1, <1>2, <2>2, <2>3, <2>5 DEF LastObjects
<1>7. ASSUME Restart(w)
      PROVE  FALSE
  BY <1>7 DEF Restart, Fault, ObjectionFaults
<1>8. CASE Push \/ PassTime \/ UNCHANGED subVars
  BY <1>1, <1>8 DEF Push, PassTime, subVars, prVars, SeenAll, LastObjects
<1> QED BY <1>2, <1>3, <1>4, <1>5, <1>6, <1>7, <1>8 DEF SubNext

\* With a single worker, and no call of GitHub or of the registry failing after
\* the review is posted, an objection never outlives the review after it.
THEOREM ObjectionsCleared ==
    ASSUME Cardinality(Workers) = 1
    PROVE  SubSpec => []OldObjectionsCleared
<1>1. SubInit => ObjectionsInv
  <2> SUFFICES ASSUME SubInit PROVE SeenAll /\ LastObjects
    BY DEF ObjectionsInv
  <2>1. \A w \in Workers : session[w].pc = "idle"
    BY IdleType DEF SubInit
  <2>2. LastObjects
    BY DEF SubInit, LastObjects
  <2> QED BY <2>1, <2>2 DEF SeenAll, Posting
<1>2. ObjectionsInv => OldObjectionsCleared
  BY DEF ObjectionsInv, OldObjectionsCleared, ObjectionFaults, LastObjects, At
<1> QED BY <1>1, <1>2, ObjectionsNext, SubmissionsLinked, PTL DEF SubSpec

-----------------------------------------------------------------------------
(* What the registry promises, promised to the submissions                 *)

\* Two submissions never hold an unexpired durable claim of one commit.
THEOREM SubmissionMutualExclusion == SubSpec => []SingleDurableHolder
BY SubmissionUsesRegistry, ClaimsMutualExclusion, PTL

\* No submission ends the running claim of another.
THEOREM SubmissionEndsOwnClaim == SubSpec => LiveClaimEndedByHolderOnly
BY SubmissionUsesRegistry, ClaimsEndedByHolder, PTL

=============================================================================
