---------------------------- MODULE UserContext ----------------------------
(* What an agent remembers of a user (internal/db/memory_knowledge.go): facts
   and preferences, written by tools and by the admin API, embedded afterwards,
   ranked against each message, and marked used in the background.

   A content is a topic, which the embedding tells, and a wording, which the
   words of a text search tell; a query is one as well.  Facts and preferences
   are rows of two tables with the same operations; only preferences have a
   condition. *)
EXTENDS Naturals, Sequences, FiniteSets, SequencesExt

CONSTANTS
  Ids,             \* rows that may come to be
  Contents,        \* [topic, words]
  Conditions,      \* preferences hold always or in a season: "any" or a season
  OfferedMemories, \* the number of rows a prompt holds (8 in the code)
  CandidateLimit,  \* candidates of each kind that a ranking looks at
  MaxUses,         \* bound: offers of a row
  EditBudget       \* bound: edits by the admin API

VARIABLES
  profileRows,   \* id -> row or Absent
  order,         \* ids from the least to the most recently updated
  embedder,      \* id -> content a tool's call is about to embed, or None
  marks,         \* background updates of usage counts not yet done
  profileHistory \* [edited, offered, lost]

userVars == <<profileRows, order, embedder, marks, profileHistory>>

NoContent == [topic |-> "none", words |-> "none"]
Absent == [content |-> NoContent, embedding |-> NoContent, used |-> 0, condition |-> "any"]
Stored == {i \in Ids : profileRows[i] # Absent}

\* An id that is stored has one place.
Place(i) == CHOOSE k \in DOMAIN order : order[k] = i

UserContextInit ==
  /\ profileRows = [i \in Ids |-> Absent]
  /\ order = <<>>
  /\ embedder = [i \in Ids |-> NoContent]
  /\ marks = {}
  /\ profileHistory = [edited |-> {}, offered |-> [i \in Ids |-> 0], lost |-> 0]

NewRow(c, d) == [content |-> c, embedding |-> NoContent, used |-> 0, condition |-> d]

\* An insert; the id has not been used before.
AddContent(i, c, d) ==
  /\ profileRows[i] = Absent /\ profileHistory.offered[i] = 0 /\ i \notin profileHistory.edited
  /\ profileRows' = [profileRows EXCEPT ![i] = NewRow(c, d)]
  /\ order' = Append(order, i)
  /\ UNCHANGED <<marks, profileHistory>>

\* The remember tool refuses reminders, notes and links; what it stores is
\* embedded after the call (embedProfileToolArtifacts).
RememberTool(i) ==
  \E c \in Contents : AddContent(i, c, "any") /\ embedder' = [embedder EXCEPT ![i] = c]

\* The save_preference tool; the content must not be empty.
SavePreferenceTool(i) ==
  \E c \in Contents, d \in Conditions :
    AddContent(i, c, d) /\ embedder' = [embedder EXCEPT ![i] = c]

\* The admin API adds rows without an embedding.
CreateMemory(i) == \E c \in Contents : AddContent(i, c, "any") /\ UNCHANGED embedder
CreatePreference(i) ==
  \E c \in Contents, d \in Conditions : AddContent(i, c, d) /\ UNCHANGED embedder

\* Embed, and set the embedding by id: a row that is gone is not found, an error
\* of the embedder leaves the row as it is.
EmbedProfileToolArtifacts(i) ==
  /\ embedder[i] # NoContent
  /\ embedder' = [embedder EXCEPT ![i] = NoContent]
  /\ \/ /\ i \in Stored
        /\ profileRows' = [profileRows EXCEPT ![i].embedding = embedder[i]]
     \/ UNCHANGED profileRows
  /\ UNCHANGED <<order, marks, profileHistory>>

\* An edit: the content changes, the embedding stays.
EditContent(i, c, d) ==
  /\ i \in Stored /\ Cardinality(profileHistory.edited) < EditBudget
  /\ profileRows' = [profileRows EXCEPT ![i].content = c, ![i].condition = d]
  /\ order' = Append(RemoveAt(order, Place(i)), i)
  /\ profileHistory' = [profileHistory EXCEPT !.edited = @ \cup {i}]
  /\ UNCHANGED <<embedder, marks>>

UpdateMemory(i) == \E c \in Contents : EditContent(i, c, profileRows[i].condition)
UpdatePreference(i) == \E c \in Contents, d \in Conditions : EditContent(i, c, d)

DeleteMemory(i) ==
  /\ i \in Stored
  /\ profileRows' = [profileRows EXCEPT ![i] = Absent]
  /\ order' = RemoveAt(order, Place(i))
  /\ profileHistory' = [profileHistory EXCEPT !.edited = @ \cup {i}]
  /\ UNCHANGED <<embedder, marks>>

-----------------------------------------------------------------------------
(* Ranking *)

UsedMore(i, j) ==
  \/ profileRows[i].used > profileRows[j].used
  \/ profileRows[i].used = profileRows[j].used /\ Place(i) > Place(j)

\* The first n rows of S in the order before(i, j).
FirstOf(S, n, before(_, _)) ==
  {i \in S : Cardinality({j \in S \ {i} : before(j, i)}) < n}

\* Vector distance, 1 or 0, and what it contributes, in tens.
Distance(i, q) == IF profileRows[i].embedding.topic = q.topic THEN 0 ELSE 1
VectorScore(i, q) == IF Distance(i, q) = 0 THEN 10 ELSE 5
TokenOverlapScore(i, q) == IF profileRows[i].content.words = q.words THEN 10 ELSE 0

Embedded(S) == {i \in S : profileRows[i].embedding # NoContent}

\* Rows near by, rows with a word of the query (every row if it has none to look
\* for), and rows used most; without an embedding of the query the last two.
VectorCandidates(q) ==
  FirstOf(Embedded(Stored), CandidateLimit,
          LAMBDA i, j : \/ Distance(i, q) < Distance(j, q)
                        \/ Distance(i, q) = Distance(j, q) /\ Place(i) > Place(j))
TextCandidates(q) ==
  FirstOf({i \in Stored : profileRows[i].content.words = q.words}, CandidateLimit, UsedMore)
UsageCandidates == FirstOf(Stored, CandidateLimit, UsedMore)

\* Variant: only rows with a word of the query, once it has an embedding.
RankRowsByText(q, hasEmbedding) ==
  IF hasEmbedding THEN VectorCandidates(q) \cup TextCandidates(q)
  ELSE TextCandidates(q)

RankRows(q, hasEmbedding) ==
  (IF hasEmbedding THEN VectorCandidates(q) ELSE {}) \cup TextCandidates(q) \cup UsageCandidates

\* Frequency grows with use; recency and priority are the same for all.
Frequency(i) == profileRows[i].used
RelevanceScore(i, q, hasEmbedding) ==
  IF hasEmbedding /\ profileRows[i].embedding # NoContent
  THEN 62 * VectorScore(i, q) + 22 * TokenOverlapScore(i, q) + 8 * Frequency(i)
  ELSE 62 * TokenOverlapScore(i, q) + 18 * Frequency(i)

RankedRows(q, hasEmbedding, C, n) ==
  FirstOf(C, n, LAMBDA i, j :
    LET a == RelevanceScore(i, q, hasEmbedding)
        b == RelevanceScore(j, q, hasEmbedding)
    IN  a > b \/ (a = b /\ UsedMore(i, j)))

RankMemories(q, hasEmbedding, n) == RankedRows(q, hasEmbedding, RankRows(q, hasEmbedding), n)

\* Preferences whose condition holds now.
ConditionMatches(i, season) == profileRows[i].condition \in {"any", season}

\* The prompt holds what ranks best and holds; usage is counted behind its back.
\* (The query's embedding may fail, and then is done without.)
UserProfileContext ==
  \E q \in Contents, hasEmbedding \in BOOLEAN, season \in Conditions \ {"any"} :
    LET shown == {i \in RankMemories(q, hasEmbedding, OfferedMemories) :
                    ConditionMatches(i, season)}
    IN  /\ shown # {} /\ marks = {}
        /\ \A i \in shown : profileHistory.offered[i] < MaxUses
        /\ marks' = shown
        /\ profileHistory' = [profileHistory EXCEPT !.offered =
             [i \in Ids |-> IF i \in shown THEN @[i] + 1 ELSE @[i]]]
        /\ UNCHANGED <<profileRows, order, embedder>>

\* One statement, or an error or the time-out of two seconds.
MarkMemoriesUsed ==
  /\ marks # {}
  /\ \/ /\ profileRows' = [i \in Ids |-> IF i \in marks \cap Stored
                                  THEN [profileRows[i] EXCEPT !.used = @ + 1] ELSE profileRows[i]]
        /\ UNCHANGED profileHistory
     \/ profileHistory' = [profileHistory EXCEPT !.lost = IF @ < MaxUses THEN @ + 1 ELSE @] /\ UNCHANGED profileRows
  /\ marks' = {}
  /\ UNCHANGED <<order, embedder>>

UserContextNext ==
  \/ \E i \in Ids :
       \/ RememberTool(i) \/ SavePreferenceTool(i) \/ CreateMemory(i) \/ CreatePreference(i)
       \/ EmbedProfileToolArtifacts(i)
       \/ UpdateMemory(i) \/ UpdatePreference(i) \/ DeleteMemory(i)
  \/ UserProfileContext \/ MarkMemoriesUsed

-----------------------------------------------------------------------------
(* Properties *)

\* A row's embedding is of what it says, unless it was edited.
EmbeddingIsOfContent ==
  \A i \in Stored \ profileHistory.edited : profileRows[i].embedding \in {NoContent, profileRows[i].content}

\* A row counts as used no more often than it was shown, and no less but for the
\* marks under way and those that failed.
UsageIsTrue ==
  \A i \in Stored :
    /\ profileRows[i].used <= profileHistory.offered[i]
    /\ profileHistory.lost < MaxUses =>
         profileHistory.offered[i] <= profileRows[i].used + profileHistory.lost + (IF i \in marks THEN 1 ELSE 0)

\* As long as the candidates of each kind are all there are, nothing that is
\* left out is more relevant than anything shown.
BestAreShown ==
  Cardinality(Stored) <= CandidateLimit =>
    \A q \in Contents, hasEmbedding \in BOOLEAN :
      LET shown == RankMemories(q, hasEmbedding, OfferedMemories) IN
      /\ Cardinality(shown) = IF Cardinality(Stored) < OfferedMemories
                              THEN Cardinality(Stored) ELSE OfferedMemories
      /\ \A i \in Stored \ shown, j \in shown :
           RelevanceScore(i, q, hasEmbedding) <= RelevanceScore(j, q, hasEmbedding)
=============================================================================
