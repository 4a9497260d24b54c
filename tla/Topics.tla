-------------------------------- MODULE Topics --------------------------------
(***************************************************************************)
(* The history of an account: conversations and the topics they are tagged *)
(* with.  When a session ends, the client flushes its transcript, perhaps  *)
(* more than once and at different times, and every flush starts an        *)
(* extraction that Lambda may repeat or run twice.  Meanwhile the owner    *)
(* merges, archives and deletes topics.  All of it is sequences of single  *)
(* writes to one table: any handler may die between two of them.           *)
(*                                                                         *)
(* A conversation is known by its session and its time.  A topic's refs    *)
(* are the conversations that a query by topic finds.                      *)
(***************************************************************************)
EXTENDS Naturals, FiniteSets

CONSTANTS
  Extractors,   \* extractions that run at the same time
  Curators,     \* requests of the owner that run at the same time
  Talks,        \* sessions that end
  Stamps,       \* times of the flushes of a session
  Topics,       \* identifiers of topics
  KnownTopics,  \* those the owner has already
  Merges,       \* merges that occur: pairs of a source and a destination
  Removals,     \* topics that are deleted
  MaxTags,      \* bound on the topics of a conversation (extractMaxTopics)
  Deliveries,   \* deliveries of one event
  TalkFaults,   \* "die": a handler ends early; "lag": a read misses the latest write
  NoStamp, NoConv, NoKey, NoTopic

ASSUME TopicsAssumption ==
  /\ KnownTopics \subseteq Topics /\ Removals \subseteq Topics
  /\ Merges \subseteq {m \in Topics \X Topics : m[1] # m[2]}
  /\ NoStamp \notin Stamps /\ \A tags \in SUBSET Topics : NoConv # tags
  /\ NoKey \notin Talks \X Stamps /\ NoTopic \notin Topics

VARIABLES
  topic,       \* the topic rows
  refs,        \* the assignment rows of each topic
  conv,        \* the conversation rows: their topics
  claim,       \* the time each session was first claimed for
  young,       \* sessions whose claim is less than two minutes old
  deliveries,  \* how often the event of a flush was delivered; events that were sent
  extraction,  \* what each extraction is doing
  curator,     \* what each request of the owner is doing
  released,    \* history: the topics that requests took refs from, each with where they went
  uncounted    \* history: topics with a ref whose writer ended before it was counted

index == <<topic, refs, conv>>
claims == <<claim, young>>
topicVars == <<index, claims, deliveries, extraction, curator, released, uncounted>>

Keys == Talks \X Stamps
\* A flush is known by its session and time, as a conversation is.
Flushes == Keys

NoRowYet == [state |-> "unborn", archived |-> FALSE, into |-> NoTopic, count |-> 0]
NewTopic == [NoRowYet EXCEPT !.state = "live"]
Exists(t) == topic[t].state = "live"
\* Only these are offered to the extractor.
Offered(t) == Exists(t) /\ ~topic[t].archived /\ topic[t].into = NoTopic

NoExtraction == [pc |-> "idle", key |-> NoKey, at |-> NoStamp, chosen |-> {}, left |-> {},
                 cur |-> NoTopic]
NoRequest == [pc |-> "idle", src |-> NoTopic, dst |-> NoTopic, todo |-> {}, cur |-> NoKey,
              seen |-> {}, moved |-> {}]

TopicsTypeOK ==
  /\ topic \in [Topics -> [state : {"unborn", "live", "gone"}, archived : BOOLEAN,
                           into : Topics \cup {NoTopic}, count : Nat]]
  /\ refs \in [Topics -> SUBSET Keys]
  /\ conv \in [Keys -> (SUBSET Topics) \cup {NoConv}]
  /\ claim \in [Talks -> Stamps \cup {NoStamp}] /\ young \subseteq Talks
  /\ deliveries \in [Flushes -> Nat]
  /\ extraction \in [Extractors -> [pc : {"idle", "look", "extract", "create", "tag", "bump"},
                                    key : Keys \cup {NoKey}, at : Stamps \cup {NoStamp},
                                    chosen : SUBSET Topics, left : SUBSET Topics,
                                    cur : Topics \cup {NoTopic}]]
  /\ curator \in [Curators -> [pc : {"idle", "move", "repoint", "rewrite", "unref", "mark", "wipe"},
                               src : Topics \cup {NoTopic}, dst : Topics \cup {NoTopic},
                               todo : SUBSET Keys, cur : Keys \cup {NoKey},
                               seen : SUBSET Topics, moved : SUBSET Keys]]
  /\ released \subseteq Topics \X (Topics \cup {NoTopic}) /\ uncounted \subseteq Topics

TopicsInit ==
  /\ topic = [t \in Topics |-> IF t \in KnownTopics THEN NewTopic ELSE NoRowYet]
  /\ refs = [t \in Topics |-> {}]
  /\ conv = [k \in Keys |-> NoConv]
  /\ claim = [s \in Talks |-> NoStamp] /\ young = {}
  /\ deliveries = [e \in Flushes |-> 0]
  /\ extraction = [x \in Extractors |-> NoExtraction]
  /\ curator = [o \in Curators |-> NoRequest]
  /\ released = {} /\ uncounted = {}

Extracting(x, r) == extraction' = [extraction EXCEPT ![x] = r]
EndExtraction(x) == Extracting(x, NoExtraction)
Requesting(o, r) == curator' = [curator EXCEPT ![o] = r]
EndRequest(o) == Requesting(o, NoRequest)

-----------------------------------------------------------------------------
(***************************************************************************)
(* Extraction.                                                             *)
(***************************************************************************)
\* Mutant: a later flush goes on with its own time.
ClaimOwn(x, e) ==
  /\ extraction[x].pc = "idle" /\ deliveries[e] < Deliveries
  /\ deliveries' = [deliveries EXCEPT ![e] = @ + 1]
  /\ claim' = [claim EXCEPT ![e[1]] = e[2]]
  /\ young' = young \cup {e[1]}
  /\ Extracting(x, [NoExtraction EXCEPT !.pc = "look", !.key = e, !.at = e[2]])
  /\ UNCHANGED <<index, curator, released, uncounted>>

\* The first extraction of a session decides the time of the conversation, every
\* later one takes it over.
ClaimConversationSession(x, e) ==
  LET s == e[1]
      first == claim[s] = NoStamp
      at == IF first THEN e[2] ELSE claim[s]
  IN
  /\ extraction[x].pc = "idle" /\ deliveries[e] < Deliveries
  /\ deliveries' = [deliveries EXCEPT ![e] = @ + 1]
  /\ claim' = [claim EXCEPT ![s] = at]
  /\ young' = IF first THEN young \cup {s} ELSE young
  /\ Extracting(x, [NoExtraction EXCEPT !.pc = "look", !.key = <<s, at>>, !.at = e[2]])
  /\ UNCHANGED <<index, curator, released, uncounted>>

ClaimAges(s) ==
  /\ s \in young /\ young' = young \ {s}
  /\ UNCHANGED <<index, claim, deliveries, extraction, curator, released, uncounted>>

\* A conversation that is there ends the extraction; so does the recent claim of
\* another flush, which is then delivered again.
LookForConversation(x) ==
  LET k == extraction[x].key
      inFlight == extraction[x].at # k[2] /\ k[1] \in young
  IN
  /\ extraction[x].pc = "look"
  /\ \/ (conv[k] # NoConv \/ inFlight) /\ EndExtraction(x)
     \/ /\ conv[k] = NoConv \/ "lag" \in TalkFaults
        /\ ~inFlight
        /\ Extracting(x, [extraction[x] EXCEPT !.pc = "extract"])
  /\ UNCHANGED <<index, claims, deliveries, curator, released, uncounted>>

Goes(x, pc, chosen) ==
  Extracting(x, [extraction[x] EXCEPT !.pc = pc, !.chosen = chosen, !.left = chosen])

\* The model tags the transcript with topics it was offered and with new ones, or
\* there is nothing to tag, or the broker fails.
Extract(x) ==
  LET taken == UNION {extraction[y].chosen : y \in Extractors \ {x}}
      unborn == {t \in Topics : topic[t].state = "unborn"} \ taken
  IN
  /\ extraction[x].pc = "extract"
  /\ \/ \E known \in SUBSET {t \in Topics : Offered(t)}, new \in SUBSET unborn :
          /\ Cardinality(known \cup new) <= MaxTags
          /\ Goes(x, IF new = {} THEN "tag" ELSE "create", known \cup new)
     \/ EndExtraction(x)
  /\ UNCHANGED <<index, claims, deliveries, curator, released, uncounted>>

CreateTopic(x, t) ==
  LET unborn == {u \in extraction[x].left : topic[u].state = "unborn"} IN
  /\ extraction[x].pc = "create" /\ t \in unborn
  /\ topic' = [topic EXCEPT ![t] = NewTopic]
  /\ Extracting(x, [extraction[x] EXCEPT !.pc = IF unborn = {t} THEN "tag" ELSE "create"])
  /\ UNCHANGED <<refs, conv, claims, deliveries, curator, released, uncounted>>

Tagged(x, t) == Extracting(x, [extraction[x] EXCEPT !.pc = "tag", !.left = @ \ {t}, !.cur = NoTopic])

\* Only a ref that is new is counted.
PutTopicRef(x, t) ==
  LET k == extraction[x].key IN
  /\ extraction[x].pc = "tag" /\ t \in extraction[x].left
  /\ refs' = [refs EXCEPT ![t] = @ \cup {k}]
  /\ IF k \in refs[t]
     THEN Tagged(x, t)
     ELSE Extracting(x, [extraction[x] EXCEPT !.pc = "bump", !.cur = t])
  /\ UNCHANGED <<topic, conv, claims, deliveries, curator, released, uncounted>>

\* A count is added to a topic that exists; it never brings one back.
Counted(t, n) == IF Exists(t) THEN [topic EXCEPT ![t].count = @ + n] ELSE topic

IncrementTopicConvCount(x) ==
  /\ extraction[x].pc = "bump"
  /\ topic' = Counted(extraction[x].cur, 1)
  /\ Tagged(x, extraction[x].cur)
  /\ UNCHANGED <<refs, conv, claims, deliveries, curator, released, uncounted>>

\* The conversation is written last, unless it is there.
CreateConversation(x) ==
  LET k == extraction[x].key IN
  /\ extraction[x].pc = "tag" /\ extraction[x].left = {}
  /\ conv' = [conv EXCEPT ![k] = IF @ = NoConv THEN extraction[x].chosen ELSE @]
  /\ EndExtraction(x)
  /\ UNCHANGED <<topic, refs, claims, deliveries, curator, released, uncounted>>

ExtractionDies(x) ==
  /\ "die" \in TalkFaults /\ extraction[x].pc # "idle"
  /\ EndExtraction(x)
  /\ uncounted' = uncounted \cup ({extraction[x].cur} \ {NoTopic})
  /\ UNCHANGED <<index, claims, deliveries, curator, released>>

ExtractionStep(x) ==
  \/ \E e \in Flushes : ClaimConversationSession(x, e)
  \/ LookForConversation(x) \/ Extract(x)
  \/ \E t \in Topics : CreateTopic(x, t) \/ PutTopicRef(x, t)
  \/ IncrementTopicConvCount(x) \/ CreateConversation(x) \/ ExtractionDies(x)

-----------------------------------------------------------------------------
(***************************************************************************)
(* Requests of the owner.                                                  *)
(***************************************************************************)
\* Merge: both topics exist, and the refs of the source are listed.
MergeTopics(o, m) ==
  /\ curator[o].pc = "idle" /\ m \in Merges /\ Exists(m[1]) /\ Exists(m[2])
  /\ Requesting(o, [NoRequest EXCEPT !.pc = "move", !.src = m[1], !.dst = m[2],
                                     !.todo = refs[m[1]]])
  /\ released' = released \cup {m}
  /\ UNCHANGED <<index, claims, deliveries, extraction, uncounted>>

\* A ref is put under the destination before it leaves the source.
MoveRef(o, k) ==
  LET r == curator[o] IN
  /\ r.pc = "move" /\ k \in r.todo
  /\ refs' = [refs EXCEPT ![r.dst] = @ \cup {k}]
  /\ Requesting(o, [r EXCEPT !.pc = "repoint", !.cur = k,
                             !.moved = IF k \in refs[r.dst] THEN @ ELSE @ \cup {k}])
  /\ UNCHANGED <<topic, conv, claims, deliveries, extraction, released, uncounted>>

RepointRead(o) ==
  LET r == curator[o] IN
  /\ r.pc = "repoint"
  /\ \/ /\ conv[r.cur] = NoConv \/ "lag" \in TalkFaults
        /\ Requesting(o, [r EXCEPT !.pc = "unref"])
     \/ /\ conv[r.cur] # NoConv
        /\ Requesting(o, [r EXCEPT !.pc = "rewrite", !.seen = conv[r.cur]])
  /\ UNCHANGED <<index, claims, deliveries, extraction, released, uncounted>>

\* The whole list that was read is written back.
RepointConversationTopic(o) ==
  LET r == curator[o]
      rewritten == IF r.src \in r.seen THEN (r.seen \ {r.src}) \cup {r.dst} ELSE r.seen
  IN
  /\ r.pc = "rewrite"
  /\ conv' = [conv EXCEPT ![r.cur] = rewritten]
  /\ Requesting(o, [r EXCEPT !.pc = "unref", !.seen = {}])
  /\ UNCHANGED <<topic, refs, claims, deliveries, extraction, released, uncounted>>

DeleteSourceRef(o) ==
  LET r == curator[o] IN
  /\ r.pc = "unref"
  /\ refs' = [refs EXCEPT ![r.src] = @ \ {r.cur}]
  /\ Requesting(o, [r EXCEPT !.pc = "move", !.todo = @ \ {r.cur}, !.cur = NoKey])
  /\ UNCHANGED <<topic, conv, claims, deliveries, extraction, released, uncounted>>

\* The refs that moved are counted, if the destination is still there.
CountMoved(o) ==
  LET r == curator[o] IN
  /\ r.pc = "move" /\ r.todo = {}
  /\ topic' = Counted(r.dst, Cardinality(r.moved))
  /\ IF r.moved = {} \/ Exists(r.dst)
     THEN Requesting(o, [r EXCEPT !.pc = "mark", !.moved = {}])
     ELSE EndRequest(o)
  /\ UNCHANGED <<refs, conv, claims, deliveries, extraction, released, uncounted>>

\* The source becomes an alias of the destination.
MarkMerged(o) ==
  LET r == curator[o] IN
  /\ r.pc = "mark"
  /\ topic' = IF Exists(r.src)
              THEN [topic EXCEPT ![r.src] = [state |-> "live", archived |-> TRUE,
                                             into |-> r.dst, count |-> 0]]
              ELSE topic
  /\ EndRequest(o)
  /\ UNCHANGED <<refs, conv, claims, deliveries, extraction, released, uncounted>>

\* Delete: the refs that are listed, and then the topic.
DeleteTopic(o, t) ==
  /\ curator[o].pc = "idle" /\ t \in Removals
  /\ Requesting(o, [NoRequest EXCEPT !.pc = "wipe", !.src = t, !.todo = refs[t]])
  /\ released' = released \cup {<<t, NoTopic>>}
  /\ UNCHANGED <<index, claims, deliveries, extraction, uncounted>>

DeleteRef(o, k) ==
  LET r == curator[o] IN
  /\ r.pc = "wipe" /\ k \in r.todo
  /\ refs' = [refs EXCEPT ![r.src] = @ \ {k}]
  /\ Requesting(o, [r EXCEPT !.todo = @ \ {k}])
  /\ UNCHANGED <<topic, conv, claims, deliveries, extraction, released, uncounted>>

DeleteTopicRow(o) ==
  LET r == curator[o] IN
  /\ r.pc = "wipe" /\ r.todo = {}
  /\ topic' = IF Exists(r.src)
              THEN [topic EXCEPT ![r.src] = [NoRowYet EXCEPT !.state = "gone"]]
              ELSE topic
  /\ EndRequest(o)
  /\ UNCHANGED <<refs, conv, claims, deliveries, extraction, released, uncounted>>

\* Archiving and restoring; a merged topic stays merged.
ArchiveTopic(t) ==
  /\ Exists(t) /\ t \in Removals
  /\ topic' = [topic EXCEPT ![t].archived = ~@]
  /\ UNCHANGED <<refs, conv, claims, deliveries, extraction, curator, released, uncounted>>

RequestDies(o) ==
  LET r == curator[o] IN
  /\ "die" \in TalkFaults /\ r.pc # "idle"
  /\ EndRequest(o)
  /\ uncounted' = IF r.moved = {} THEN uncounted ELSE uncounted \cup {r.dst}
  /\ UNCHANGED <<index, claims, deliveries, extraction, released>>

RequestStep(o) ==
  \/ \E m \in Merges : MergeTopics(o, m)
  \/ \E t \in Topics : DeleteTopic(o, t)
  \/ \E k \in Keys : MoveRef(o, k) \/ DeleteRef(o, k)
  \/ RepointRead(o) \/ RepointConversationTopic(o) \/ DeleteSourceRef(o)
  \/ CountMoved(o) \/ MarkMerged(o) \/ DeleteTopicRow(o) \/ RequestDies(o)

TopicsNext ==
  \/ \E x \in Extractors : ExtractionStep(x)
  \/ \E o \in Curators : RequestStep(o)
  \/ \E s \in Talks : ClaimAges(s)
  \/ \E t \in Topics : ArchiveTopic(t)

TopicsSpec == TopicsInit /\ [][TopicsNext]_topicVars

-----------------------------------------------------------------------------
(***************************************************************************)
(* Properties.                                                             *)
(***************************************************************************)
\* A session has one conversation, however many flushes of it there were, at
\* whatever times, and however often each was delivered.
OneConversation ==
  \A s \in Talks : \A t, u \in Stamps :
    conv[<<s, t>>] # NoConv /\ conv[<<s, u>>] # NoConv => t = u

\* A merge or a deletion of the topic was begun.
Released(t) == \E u \in Topics \cup {NoTopic} : <<t, u>> \in released

\* A conversation is found under every topic it lists; or, if this is merged, under the
\* topic that it goes to, unless that is merged or deleted in turn; or this is deleted.
TagsFound ==
  \A k \in Keys : conv[k] # NoConv => \A t \in conv[k] :
    \/ k \in refs[t]
    \/ <<t, NoTopic>> \in released
    \/ \E u \in Topics : <<t, u>> \in released /\ (k \in refs[u] \/ Released(u))

\* Refs of t whose writer has still to count them.
Uncounted(t) ==
  Cardinality({x \in Extractors : extraction[x].cur = t})
  + Cardinality({m \in Curators \X Keys : curator[m[1]].dst = t /\ m[2] \in curator[m[1]].moved})

\* A topic of which no merge or deletion was begun counts each of its refs once, those
\* that merges brought it too: none twice, and one not at all only if the writer of a
\* ref ended before it counted.
CountsRefs ==
  \A t \in Topics :
    Exists(t) /\ ~Released(t) =>
      LET sum == topic[t].count + Uncounted(t) IN
      /\ sum <= Cardinality(refs[t])
      /\ t \notin uncounted => sum = Cardinality(refs[t])

\* The history that a member browses by topic: one conversation of a session,
\* found under its topics, and counted by them.
HistoryIndexed == OneConversation /\ TagsFound /\ CountsRefs
===============================================================================
