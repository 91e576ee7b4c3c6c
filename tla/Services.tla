------------------------------ MODULE Services ------------------------------
(***************************************************************************)
(* Six services of the backend that share no state, side by side: in a     *)
(* behaviour one of them runs and the others stand still.  The module puts *)
(* them together and gives each its properties; MCServices gives the       *)
(* constants their values and ServicesProofs holds the theorems.           *)
(***************************************************************************)
EXTENDS InterprocessLock, Integers, FiniteSets

CONSTANTS
    \* FullresPublication
    Views, PubMaxSource, PubMaxJobs, PubMaxKills,
    \* SingleFlight
    Callers, Keys, Outcomes, NoKey, Pending, MaxRequests,
    \* JobEvents
    Writers, Readers, Nobody, MaxEvents, EvMaxFaults, Batch,
    \* EmbeddingIndex
    Candidates, BatchSize, EmbMaxSource, EmbMaxFaults,
    \* DatasetSplits; CutSources are source annotations
    Tiles, TileInfo, Scenes, CutSources, Ratios, BlockTiles, BufferTiles

VARIABLES
    part,   \* the service that runs
    pubSource, pubRecord, pubCandidate, pubActive, pubReady, pubJob,
    pubJobs, pubKills, pubWpc, pubMine, pubBuilt, pubSeen, pubVpc, pubAsked,
    pubCopy, pubEnded, pubVanished,
    callTable, callCall, callPc, callKey, callRef, callTicket, callRequests,
    callGot,
    evHolder, evSeq, evLog, evTorn, evEnded, evWpc, evNumber, evEvents,
    evFaults, evRpc, evBatch, evSome, evCursor, evGot,
    embSource, embVectors, embParts, embCheckpoint, embManifest, embPc,
    embSignature, embRead, embRows, embNumbered, embKept, embFaults,
    embSpoiled,
    cutMode, cutRatio, cutGeo, cutLinks, cutParents, cutUnmerged, cutGroup,
    cutSplit, cutStage

pubVars == <<
    pubSource, pubRecord, pubCandidate, pubActive, pubReady, pubJob,
    pubJobs, pubKills, pubWpc, pubMine, pubBuilt, pubSeen, pubVpc, pubAsked,
    pubCopy, pubEnded, pubVanished>>
callVars == <<
    callTable, callCall, callPc, callKey, callRef, callTicket, callRequests,
    callGot>>
evVars == <<
    evHolder, evSeq, evLog, evTorn, evEnded, evWpc, evNumber, evEvents,
    evFaults, evRpc, evBatch, evSome, evCursor, evGot>>
embVars == <<
    embSource, embVectors, embParts, embCheckpoint, embManifest, embPc,
    embSignature, embRead, embRows, embNumbered, embKept, embFaults,
    embSpoiled>>
cutVars == <<
    cutMode, cutRatio, cutGeo, cutLinks, cutParents, cutUnmerged, cutGroup,
    cutSplit, cutStage>>
lockVars == vars
allVars == <<part, lockVars, pubVars, callVars, evVars, embVars, cutVars>>

Pub == INSTANCE FullresPublication WITH
    MaxSource <- PubMaxSource, MaxJobs <- PubMaxJobs, MaxKills <- PubMaxKills,
    source <- pubSource, record <- pubRecord, candidate <- pubCandidate,
    active <- pubActive, ready <- pubReady, job <- pubJob, jobs <- pubJobs,
    kills <- pubKills, wpc <- pubWpc, mine <- pubMine, built <- pubBuilt,
    seen <- pubSeen, vpc <- pubVpc, asked <- pubAsked, copy <- pubCopy,
    ended <- pubEnded, vanished <- pubVanished

Calls == INSTANCE SingleFlight WITH
    table <- callTable, call <- callCall, pc <- callPc, key <- callKey,
    ref <- callRef, ticket <- callTicket, requests <- callRequests,
    got <- callGot

Events == INSTANCE JobEvents WITH
    MaxFaults <- EvMaxFaults,
    holder <- evHolder, seq <- evSeq, log <- evLog, torn <- evTorn,
    ended <- evEnded, wpc <- evWpc, number <- evNumber, events <- evEvents,
    faults <- evFaults, rpc <- evRpc, batch <- evBatch, some <- evSome,
    cursor <- evCursor, got <- evGot

Embeddings == INSTANCE EmbeddingIndex WITH
    MaxSource <- EmbMaxSource, MaxFaults <- EmbMaxFaults,
    source <- embSource, vectors <- embVectors, parts <- embParts,
    checkpoint <- embCheckpoint, manifest <- embManifest, pc <- embPc,
    signature <- embSignature, read <- embRead, rows <- embRows,
    numbered <- embNumbered, kept <- embKept, faults <- embFaults,
    spoiled <- embSpoiled

Splitting == INSTANCE DatasetSplits WITH
    Sources <- CutSources,
    mode <- cutMode, ratio <- cutRatio, geo <- cutGeo, links <- cutLinks,
    parents <- cutParents, unmerged <- cutUnmerged, group <- cutGroup,
    split <- cutSplit, stage <- cutStage

-----------------------------------------------------------------------------

(* Bounds are numbers, and the markers for "nothing" are no values.        *)
PublicationBounds ==
    PubMaxSource \in Nat \ {0} /\ PubMaxJobs \in Nat /\ PubMaxKills \in Nat

CallsBounds ==
    NoKey \notin Keys /\ Pending \notin Outcomes /\ MaxRequests \in Nat

EventsBounds ==
    /\ MaxEvents \in Nat /\ EvMaxFaults \in Nat /\ Batch \in Nat
    /\ Nobody \notin Writers

EmbeddingsBounds ==
    /\ Candidates \in Nat /\ BatchSize \in Nat /\ EmbMaxFaults \in Nat
    /\ EmbMaxSource \in Nat \ {0}

(* Tiles are numbered, and their places and the shares are numbers.        *)
SplittingBounds ==
    /\ Tiles \in SUBSET Nat /\ IsFiniteSet(Tiles)
    /\ \A t \in Tiles : TileInfo[t].x \in Int /\ TileInfo[t].y \in Int
    /\ BufferTiles \in Nat
    /\ Ratios \subseteq Nat \X Nat

ASSUME BoundsAssumption ==
    /\ PublicationBounds /\ CallsBounds /\ EventsBounds /\ EmbeddingsBounds
    /\ SplittingBounds

-----------------------------------------------------------------------------

Parts == {"lock", "publication", "calls", "events", "embeddings", "splits"}

\* The splits of a behaviour in which they do not run: one start of theirs.
NoSplits ==
    /\ cutMode = "random_tile" /\ cutGeo = Scenes
    /\ cutLinks = [t \in Tiles |-> {}]

ServicesInit ==
    /\ part \in Parts
    /\ Init
    /\ Pub!Init
    /\ Calls!Init
    /\ Events!Init
    /\ Embeddings!Init
    /\ Splitting!Init
    /\ part # "splits" => NoSplits

\* One service runs, the others stand still.
InLock == part = "lock" /\ UNCHANGED <<part, pubVars, callVars, evVars, embVars, cutVars>>
InPublication ==
    part = "publication" /\ UNCHANGED <<part, lockVars, callVars, evVars, embVars, cutVars>>
InCalls == part = "calls" /\ UNCHANGED <<part, lockVars, pubVars, evVars, embVars, cutVars>>
InEvents == part = "events" /\ UNCHANGED <<part, lockVars, pubVars, callVars, embVars, cutVars>>
InEmbeddings ==
    part = "embeddings" /\ UNCHANGED <<part, lockVars, pubVars, callVars, evVars, cutVars>>
InSplits == part = "splits" /\ UNCHANGED <<part, lockVars, pubVars, callVars, evVars, embVars>>

ServicesNext ==
    \/ InLock /\ Next
    \/ InPublication /\ Pub!Next
    \/ InCalls /\ Calls!Next
    \/ InEvents /\ Events!Next
    \/ InEmbeddings /\ Embeddings!Next
    \/ InSplits /\ Splitting!Next

\* The fairness of each service, in the behaviours in which it runs.
ServicesFairness ==
    /\ \A t \in Threads : WF_lockVars(part = "lock" /\ Step(t))
    /\ WF_pubVars(part = "publication" /\ Pub!WorkerStep)
    /\ \A v \in Views : WF_pubVars(part = "publication" /\ Pub!AskView(v))
    /\ \A v \in Views : WF_pubVars(part = "publication" /\ Pub!ViewStep(v))
    /\ \A c \in Callers : WF_callVars(part = "calls" /\ Calls!Step(c))
    /\ WF_evVars(part = "events" /\ Events!EndJob)
    /\ \A r \in Readers : WF_evVars(part = "events" /\ Events!Stream(r))

ServicesSpec == ServicesInit /\ [][ServicesNext]_allVars /\ ServicesFairness

-----------------------------------------------------------------------------

(* The values every service works with stay of their types.                *)
TypesOK ==
    /\ part = "lock" => TypeOK
    /\ part = "publication" => Pub!TypeOK
    /\ part = "calls" => Calls!TypeOK
    /\ part = "events" => Events!TypeOK
    /\ part = "embeddings" => Embeddings!TypeOK
    /\ part = "splits" => Splitting!TypeOK

(* FullresPublication: a view is never shown another source's pixels,      *)
(* unless a candidate was removed from beside an older published file      *)
(* while its record or a view still waited for it (vanished).              *)
ShownIsCurrent == Pub!ShownIsCurrent

(* FullresPublication: a candidate is activated or marked failed.          *)
CandidateSettles == Pub!CandidateSettles

(* SingleFlight: the table implements SharedCall, one execution of a key   *)
(* at a time whose outcome all its callers are given.                      *)
ImplementsSharedCall == Calls!ImplementsSharedCall

(* JobEvents: a client was sent each readable event once and in order.     *)
EachEventOnce == Events!EachEventOnce

(* EmbeddingIndex: an index that loads has the right object in every row.  *)
IndexIsWhole == Embeddings!IndexIsWhole

(* DatasetSplits: no source annotation in two splits, no train tile in the *)
(* belt around val and test.                                               *)
NothingLeaks == part = "splits" => Splitting!NothingLeaks

=============================================================================
