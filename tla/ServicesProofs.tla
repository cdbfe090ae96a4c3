--------------------------- MODULE ServicesProofs ---------------------------
(***************************************************************************)
(* Proofs about RateLimit and Labels, for every value of their constants,  *)
(* and about MCServices, which runs them next to Listing.                  *)
(***************************************************************************)
EXTENDS MCServices, ListingProofs, TLAPS

-----------------------------------------------------------------------------
(* RateLimit *)

Least(m, n) == IF m <= n THEN m ELSE n

\* What has been let through while somebody watches: at most the limit while no
\* key is set; at most what the current window has counted when it began before
\* the watching did; and the limit of an earlier window on top of it when the
\* current one began later, which then outlasts the watching.
WatchInv ==
    watch > 0 =>
        /\ ttl = 0 => admitted <= IF watch = Window THEN 0 ELSE Limit
        /\ 0 < ttl /\ ttl <= watch => admitted <= Least(count, Limit)
        /\ ttl > watch => admitted <= Limit + Least(count, Limit)

LimiterInv == LimiterTypeOK /\ WatchInv /\ AtMostTwiceTheLimit

\* The invariant holds at first.
LEMMA LimiterInitInv == LimiterInit => LimiterInv
BY LimiterAssumption
DEF LimiterInit, LimiterInv, LimiterTypeOK, WatchInv, AtMostTwiceTheLimit

\* The script keeps the key's type, and starts a window exactly when there is
\* none.
LEMMA ScriptStep ==
    ASSUME LimiterInv, Script
    PROVE  /\ count' \in 1 .. Limit + 1
           /\ ttl' \in 1 .. Window
           /\ ttl > 0 => ttl' = ttl
           /\ ttl = 0 => count' = 1 /\ ttl' = Window
           /\ count <= Limit => count' = count + 1
           /\ count > Limit => count' = count
BY LimiterAssumption DEF LimiterInv, LimiterTypeOK, Script, Counted

\* Letting a request through, or refusing it, keeps the invariant.
LEMMA HitInv == ASSUME LimiterInv, Hit PROVE LimiterInv'
<1>1. Script
  BY DEF Hit
<1>2. CASE count <= Limit
  <2>1. Counted <= Limit <=> count + 1 <= Limit
    BY <1>2, LimiterAssumption DEF Counted, LimiterInv, LimiterTypeOK
  <2>2. CASE count + 1 <= Limit
    BY <1>1, <1>2, <2>1, <2>2, ScriptStep, LimiterAssumption
    DEF Hit, Admit, LimiterInv, LimiterTypeOK, WatchInv, AtMostTwiceTheLimit, Least
  <2>3. CASE ~(count + 1 <= Limit)
    BY <1>1, <1>2, <2>1, <2>3, ScriptStep, LimiterAssumption
    DEF Hit, Refuse, LimiterInv, LimiterTypeOK, WatchInv, AtMostTwiceTheLimit, Least
  <2>4. QED BY <2>2, <2>3
<1>3. CASE count > Limit
  BY <1>1, <1>3, ScriptStep, LimiterAssumption
  DEF Hit, Refuse, Counted, LimiterInv, LimiterTypeOK, WatchInv, AtMostTwiceTheLimit, Least
<1>4. QED
  BY <1>2, <1>3, LimiterAssumption DEF LimiterInv, LimiterTypeOK

\* Counting a request without letting it through keeps the invariant.
LEMMA ReplyLostInv == ASSUME LimiterInv, ReplyLost PROVE LimiterInv'
BY ScriptStep, LimiterAssumption
DEF ReplyLost, Refuse, LimiterInv, LimiterTypeOK, WatchInv, AtMostTwiceTheLimit, Least

\* The passing of time keeps the invariant.
LEMMA TickInv == ASSUME LimiterInv, Tick PROVE LimiterInv'
BY LimiterAssumption
DEF Tick, LimiterInv, LimiterTypeOK, WatchInv, AtMostTwiceTheLimit, Least

\* Beginning to watch establishes it anew.
LEMMA WatchStepInv == ASSUME LimiterInv, Watch PROVE LimiterInv'
BY LimiterAssumption
DEF Watch, LimiterInv, LimiterTypeOK, WatchInv, AtMostTwiceTheLimit, Least

\* The invariant of RateLimit.
THEOREM LimiterInvariant == LimiterSpec => []LimiterInv
<1>1. LimiterInv /\ [LimiterNext]_limiterVars => LimiterInv'
  <2> SUFFICES ASSUME LimiterInv, [LimiterNext]_limiterVars
               PROVE  LimiterInv'
    OBVIOUS
  <2>1. CASE UNCHANGED limiterVars
    BY <2>1 DEF limiterVars, LimiterInv, LimiterTypeOK, WatchInv, AtMostTwiceTheLimit, Least
  <2>2. QED
    BY <2>1, HitInv, ReplyLostInv, TickInv, WatchStepInv DEF LimiterNext
<1>2. QED
  BY <1>1, LimiterInitInv, PTL DEF LimiterSpec

\* The key always expires and the counters stay within their bounds.
THEOREM LimiterTypesHold == LimiterSpec => []LimiterTypeOK
<1>1. LimiterInv => LimiterTypeOK
  BY DEF LimiterInv
<1>2. QED
  BY <1>1, LimiterInvariant, PTL

\* No interval as long as a window lets more than twice the limit through,
\* whatever the limit and the window.
THEOREM AtMostTwiceTheLimitHolds == LimiterSpec => []AtMostTwiceTheLimit
<1>1. LimiterInv => AtMostTwiceTheLimit
  BY DEF LimiterInv
<1>2. QED
  BY <1>1, LimiterInvariant, PTL

\* A window is fixed when it opens: while the key exists its time to live only
\* runs down, and the count only grows until the key expires.
WindowsAreFixed ==
    [][count > 0 => /\ ttl' <= ttl
                    /\ count' >= count \/ (count' = 0 /\ ttl = 1)]_limiterVars

\* Trying again does not prolong a refusal: EXPIRE is called for a new key
\* only (RATE_LIMIT_SCRIPT).
THEOREM WindowsStay == LimiterSpec => WindowsAreFixed
<1>1. ASSUME LimiterInv, [LimiterNext]_limiterVars, count > 0
      PROVE  ttl' <= ttl /\ (count' >= count \/ (count' = 0 /\ ttl = 1))
  <2>1. count \in Nat /\ ttl \in Nat /\ ttl > 0
    BY <1>1, LimiterAssumption DEF LimiterInv, LimiterTypeOK
  <2>2. CASE Script
    BY <1>1, <2>1, <2>2, LimiterAssumption DEF Script, Counted
  <2>3. CASE Tick
    BY <1>1, <2>1, <2>3 DEF Tick
  <2>4. CASE Watch \/ UNCHANGED limiterVars
    BY <2>1, <2>4 DEF Watch, limiterVars
  <2> QED BY <1>1, <2>2, <2>3, <2>4 DEF LimiterNext, Hit, ReplyLost
<1>2. LimiterInv /\ [LimiterNext]_limiterVars =>
        [count > 0 => /\ ttl' <= ttl
                      /\ count' >= count \/ (count' = 0 /\ ttl = 1)]_limiterVars
  BY <1>1
<1> QED BY <1>2, LimiterInvariant, PTL DEF LimiterSpec, WindowsAreFixed

-----------------------------------------------------------------------------
(* Labels *)

\* A column that an update_ will not write, and that has not been overtaken, is
\* still the one it has loaded, unless the row was deleted.
Fresh(doing) ==
    doing.label \in Present =>
        \A c \in Unwritten(doing) \ doing.overtaken :
            labels[doing.label][c] = doing.loaded[c]

FreshUnlessOvertaken ==
    \A q \in Clients : client[q].pc = "update" => Fresh(client[q])

\* An update_ is about a label that has been created.
UpdatesKnown ==
    \A q \in Clients :
        client[q].pc = "update" => labels[client[q].label] # NotYet

LabelsInv ==
    LabelsTypeOK /\ WholeUnlessOvertaken /\ FreshUnlessOvertaken /\ UpdatesKnown

\* The three kinds of rows differ.
LEMMA RowKinds ==
    /\ NotYet.state = "not yet" /\ Deleted.state = "deleted"
    /\ \A row \in There : row.state = "there"
    /\ NotYet # Deleted /\ NotYet \notin There /\ Deleted \notin There
<1>1. NotYet.state = "not yet" /\ Deleted.state = "deleted"
  BY DEF NotYet, Deleted
<1>2. \A row \in There : row.state = "there"
  BY DEF There
<1> QED BY <1>1, <1>2

\* A label is there exactly when its row is one of There.
LEMMA PresentRows ==
    ASSUME LabelsTypeOK, NEW l \in LabelIds
    PROVE  /\ l \in Present <=> labels[l] \in There
           /\ l \notin Present <=> labels[l] \in {NotYet, Deleted}
<1>1. labels[l] \in {NotYet, Deleted} \cup There
  BY DEF LabelsTypeOK
<1>2. l \in Present <=> labels[l].state = "there"
  BY DEF Present
<1> QED BY <1>1, <1>2, RowKinds

\* The requests that update, by the fields they have.
LEMMA UpdateFields ==
    ASSUME NEW doing \in Doing, doing.pc = "update"
    PROVE  /\ doing \in [pc : {"update"}, label : LabelIds, ask : There,
                         loaded : There, overtaken : SUBSET Columns]
           /\ doing.label \in LabelIds
           /\ doing.ask \in There
           /\ doing.loaded \in There
           /\ doing.overtaken \in SUBSET Columns
BY DEF Doing, AtRest

\* The invariant holds at first.
LEMMA LabelsInitInv == LabelsInit => LabelsInv
<1> SUFFICES ASSUME LabelsInit PROVE LabelsInv
  OBVIOUS
<1>1. Present = {}
  BY RowKinds DEF LabelsInit, Present
<1>2. \A q \in Clients : client[q] = AtRest /\ client[q].pc # "update"
  BY DEF LabelsInit, AtRest
<1>3. LabelsTypeOK
  BY <1>1 DEF LabelsInit, LabelsTypeOK, Doing
<1> QED BY <1>1, <1>2, <1>3
        DEF LabelsInv, WholeUnlessOvertaken, FreshUnlessOvertaken, UpdatesKnown

\* A step that only changes what q does keeps the invariant when q begins
\* something it has the data for.
LEMMA ReadsInv ==
    ASSUME LabelsInv, NEW q \in Clients, NEW doing \in Doing, Reads(q, doing),
           doing.pc = "update" => labels[doing.label] = doing.loaded
    PROVE  LabelsInv'
<1>0. labels' = labels /\ Present' = Present
  BY DEF Reads, Present
<1>1. /\ client' \in [Clients -> Doing]
      /\ \A p \in Clients : client'[p] = IF p = q THEN doing ELSE client[p]
  BY DEF Reads, LabelsInv, LabelsTypeOK
<1>2. LabelsTypeOK'
  BY <1>0, <1>1 DEF Reads, LabelsInv, LabelsTypeOK
<1>3. WholeUnlessOvertaken'
  BY <1>0 DEF Reads, LabelsInv, WholeUnlessOvertaken
<1>4. FreshUnlessOvertaken'
  BY <1>0, <1>1 DEF LabelsInv, FreshUnlessOvertaken, Fresh, Unwritten
<1>5. UpdatesKnown'
  BY <1>0, <1>1, UpdateFields, RowKinds DEF LabelsInv, UpdatesKnown
<1> QED BY <1>2, <1>3, <1>4, <1>5 DEF LabelsInv

\* A request that ends and changes at most tags and archived keeps it.
LEMMA EndsInv ==
    ASSUME LabelsInv, NEW q \in Clients, Ends(q),
           UNCHANGED <<labels, asked, mixed>>,
           tags' \in SUBSET (TaggedIssues \X Present),
           archived' \in SUBSET TaggedIssues
    PROVE  LabelsInv'
<1>0. Present' = Present
  BY DEF Present
<1>1. /\ client' \in [Clients -> Doing]
      /\ \A p \in Clients : client'[p] = IF p = q THEN AtRest ELSE client[p]
  BY DEF Ends, LabelsInv, LabelsTypeOK, Doing
<1>2. LabelsTypeOK'
  BY <1>0, <1>1 DEF LabelsInv, LabelsTypeOK
<1>3. WholeUnlessOvertaken'
  BY <1>0 DEF LabelsInv, WholeUnlessOvertaken
<1>4. FreshUnlessOvertaken' /\ UpdatesKnown'
  BY <1>0, <1>1 DEF AtRest, LabelsInv, FreshUnlessOvertaken, Fresh, Unwritten, UpdatesKnown
<1> QED BY <1>2, <1>3, <1>4 DEF LabelsInv

\* create keeps it: nobody updates a label that is not there yet.
LEMMA CreateLabelInv ==
    ASSUME LabelsInv, NEW l \in LabelIds, NEW name \in LabelNames, NEW color \in Colors,
           CreateLabel(l, name, color)
    PROVE  LabelsInv'
<1> DEFINE new == Label(name, color)
<1>1. /\ new \in There /\ new.state = "there"
      /\ labels' = [labels EXCEPT ![l] = new]
      /\ asked' = [asked EXCEPT ![l] = new]
  BY DEF Label, There, CreateLabel
<1> HIDE DEF new
<1>2. Present' = Present \cup {l}
  BY <1>1 DEF Present, LabelsInv, LabelsTypeOK
<1>3. LabelsTypeOK'
  BY <1>1, <1>2 DEF CreateLabel, LabelsInv, LabelsTypeOK
<1>4. WholeUnlessOvertaken'
  BY <1>1, <1>2 DEF CreateLabel, LabelsInv, LabelsTypeOK, WholeUnlessOvertaken
<1>5. FreshUnlessOvertaken' /\ UpdatesKnown'
  <2> SUFFICES ASSUME NEW q \in Clients, client[q].pc = "update"
               PROVE  /\ labels'[client[q].label] = labels[client[q].label]
                      /\ client[q].label \in Present' => client[q].label \in Present
    BY DEF CreateLabel, LabelsInv, FreshUnlessOvertaken, Fresh, Unwritten, UpdatesKnown
  <2>1. client[q].label \in LabelIds /\ client[q].label # l
    BY UpdateFields DEF LabelsInv, LabelsTypeOK, UpdatesKnown, CreateLabel
  <2> QED BY <1>1, <1>2, <2>1 DEF LabelsInv, LabelsTypeOK
<1> QED BY <1>3, <1>4, <1>5 DEF LabelsInv

\* A flushed row is one a label may have: each column that differs from what was
\* loaded is as it was asked for, and the others are left alone.
LEMMA FlushedRow ==
    ASSUME NEW l \in LabelIds, labels[l] \in There, NEW loaded \in There, NEW ask \in There
    PROVE  /\ Flushed(l, loaded, ask) \in There
           /\ \A c \in Columns :
                  Flushed(l, loaded, ask)[c] = IF ask[c] # loaded[c] THEN ask[c]
                                               ELSE labels[l][c]
BY DEF Flushed, Label, There, Columns

\* The commit of update_ keeps it: what it does not write is, if not overtaken,
\* as it asked for.
LEMMA UpdateLabelCommitInv ==
    ASSUME LabelsInv, NEW q \in Clients, UpdateLabelCommit(q)
    PROVE  LabelsInv'
<1> DEFINE doing == client[q]
           l     == doing.label
           new   == Flushed(l, doing.loaded, doing.ask)
<1>0. /\ doing \in Doing /\ doing.pc = "update"
      /\ l \in LabelIds /\ doing.ask \in There /\ doing.loaded \in There
      /\ doing.overtaken \in SUBSET Columns
  BY UpdateFields DEF UpdateLabelCommit, LabelsInv, LabelsTypeOK
<1>1. CASE l \in Present /\ ~NameTaken(l, new.name)
  <2>1. /\ labels' = [labels EXCEPT ![l] = new]
        /\ asked' = [asked EXCEPT ![l] = doing.ask]
        /\ mixed' = (mixed \ ({l} \X Columns)) \cup ({l} \X doing.overtaken)
        /\ Overtake(l, q, new)
        /\ UNCHANGED <<tags, archived>>
    BY <1>1 DEF UpdateLabelCommit
  <2>2. labels[l] \in There
    BY <1>0, <1>1, PresentRows DEF LabelsInv
  <2>3. /\ new \in There
        /\ \A c \in Columns :
               new[c] = IF doing.ask[c] # doing.loaded[c] THEN doing.ask[c] ELSE labels[l][c]
    BY <1>0, <2>2, FlushedRow
  <2> HIDE DEF new
  <2>4. Present' = Present
    BY <1>0, <1>1, <2>1, <2>3, RowKinds DEF Present, LabelsInv, LabelsTypeOK
  <2>5. ASSUME NEW p \in Clients
        PROVE  /\ client'[p] \in Doing
               /\ client'[p].pc = "update" =>
                      /\ p # q /\ client[p].pc = "update"
                      /\ client'[p].label = client[p].label
                      /\ client'[p].ask = client[p].ask
                      /\ client'[p].loaded = client[p].loaded
                      /\ client[p].label # l => client'[p].overtaken = client[p].overtaken
                      /\ client[p].label = l =>
                             client'[p].overtaken =
                                 client[p].overtaken
                                 \cup ({c \in Columns : labels[l][c] # new[c]}
                                       \cap Unwritten(client[p]))
    <3>1. CASE p = q
      BY <2>1, <3>1 DEF Overtake, Doing, AtRest
    <3>2. CASE p # q /\ client[p].pc = "update" /\ client[p].label = l
      <4>1. client'[p] = [client[p] EXCEPT
                              !.overtaken = @ \cup ({c \in Columns : labels[l][c] # new[c]}
                                                    \cap Unwritten(client[p]))]
        BY <2>1, <3>2 DEF Overtake
      <4>2. client[p] \in [pc : {"update"}, label : LabelIds, ask : There,
                           loaded : There, overtaken : SUBSET Columns]
        BY <3>2, UpdateFields DEF LabelsInv, LabelsTypeOK
      <4> QED BY <3>2, <4>1, <4>2 DEF Doing
    <3>3. CASE p # q /\ ~(client[p].pc = "update" /\ client[p].label = l)
      BY <2>1, <3>3 DEF Overtake, LabelsInv, LabelsTypeOK
    <3> QED BY <3>1, <3>2, <3>3
  <2>6. LabelsTypeOK'
    <3>1. client' \in [Clients -> Doing]
      BY <2>1, <2>5 DEF Overtake
    <3> QED BY <1>0, <2>1, <2>3, <2>4, <3>1 DEF LabelsInv, LabelsTypeOK
  <2>7. WholeUnlessOvertaken'
    <3> SUFFICES ASSUME NEW m \in Present, NEW c \in Columns, <<m, c>> \notin mixed'
                 PROVE  labels'[m][c] = asked'[m][c]
      BY <2>4 DEF WholeUnlessOvertaken
    <3>1. CASE m = l
      <4>1. c \notin doing.overtaken
        BY <1>0, <2>1, <3>1
      <4>2. doing.ask[c] = doing.loaded[c] => labels[l][c] = doing.loaded[c]
        BY <1>0, <1>1, <4>1 DEF LabelsInv, FreshUnlessOvertaken, Fresh, Unwritten
      <4>3. labels'[l] = new /\ asked'[l] = doing.ask
        BY <1>0, <2>1 DEF LabelsInv, LabelsTypeOK
      <4> QED BY <2>3, <3>1, <4>2, <4>3
    <3>2. CASE m # l
      <4>1. <<m, c>> \notin mixed /\ m \in LabelIds
        BY <2>1, <3>2 DEF Present
      <4> QED BY <2>1, <3>2, <4>1 DEF LabelsInv, LabelsTypeOK, WholeUnlessOvertaken
    <3> QED BY <3>1, <3>2
  <2>8. UpdatesKnown' /\ FreshUnlessOvertaken'
    <3> SUFFICES ASSUME NEW p \in Clients, client'[p].pc = "update"
                 PROVE  labels'[client'[p].label] # NotYet /\ Fresh(client[p])'
      BY DEF FreshUnlessOvertaken, Fresh, Unwritten, UpdatesKnown
    <3>1. client[p].label \in LabelIds
      BY <2>5, UpdateFields DEF LabelsInv, LabelsTypeOK
    <3>2. labels'[client[p].label] =
              IF client[p].label = l THEN new ELSE labels[client[p].label]
      BY <2>1, <3>1 DEF LabelsInv, LabelsTypeOK
    <3>3. labels'[client'[p].label] # NotYet
      <4>1. new # NotYet
        BY <2>3, RowKinds
      <4>2. labels[client[p].label] # NotYet /\ client'[p].label = client[p].label
        BY <2>5 DEF LabelsInv, UpdatesKnown
      <4> QED BY <3>2, <4>1, <4>2
    <3>4. Fresh(client[p])
      BY <2>5 DEF LabelsInv, FreshUnlessOvertaken
    <3>5. Unwritten(client[p])' = Unwritten(client[p]) /\ Unwritten(client[p]) \subseteq Columns
      BY <2>5 DEF Unwritten
    <3>6. Fresh(client[p])'
      BY <2>4, <2>5, <3>2, <3>4, <3>5 DEF Fresh
    <3> QED BY <3>3, <3>6
  <2> QED BY <2>6, <2>7, <2>8 DEF LabelsInv
<1>2. CASE ~(l \in Present /\ ~NameTaken(l, new.name))
  <2>1. Ends(q) /\ UNCHANGED <<labels, asked, mixed, tags, archived>>
    BY <1>2 DEF UpdateLabelCommit
  <2> QED BY <2>1, EndsInv DEF LabelsInv, LabelsTypeOK
<1> QED BY <1>1, <1>2

\* The commit of delete_ keeps it.
LEMMA DeleteLabelCommitInv ==
    ASSUME LabelsInv, NEW q \in Clients, DeleteLabelCommit(q)
    PROVE  LabelsInv'
<1> DEFINE l == client[q].label
<1>1. l \in LabelIds
  BY DEF DeleteLabelCommit, LabelsInv, LabelsTypeOK, Doing, AtRest
<1>2. /\ labels' = [labels EXCEPT ![l] = Deleted]
      /\ asked' = [asked EXCEPT ![l] = Deleted]
      /\ mixed' = mixed \ ({l} \X Columns)
      /\ tags' = {t \in tags : t[2] # l}
      /\ archived' = archived
      /\ Ends(q)
  BY DEF DeleteLabelCommit
<1> HIDE DEF l
<1>3. Present' = Present \ {l}
  BY <1>1, <1>2, RowKinds DEF Present, LabelsInv, LabelsTypeOK
<1>4. /\ client' \in [Clients -> Doing]
      /\ \A p \in Clients : client'[p] = IF p = q THEN AtRest ELSE client[p]
  BY <1>2 DEF Ends, LabelsInv, LabelsTypeOK, Doing
<1>5. tags' \in SUBSET (TaggedIssues \X Present')
  BY <1>2, <1>3 DEF LabelsInv, LabelsTypeOK
<1>6. LabelsTypeOK'
  BY <1>1, <1>2, <1>4, <1>5 DEF LabelsInv, LabelsTypeOK
<1>7. WholeUnlessOvertaken'
  BY <1>1, <1>2, <1>3 DEF LabelsInv, LabelsTypeOK, WholeUnlessOvertaken
<1>8. FreshUnlessOvertaken' /\ UpdatesKnown'
  <2> SUFFICES ASSUME NEW p \in Clients, client'[p].pc = "update"
               PROVE  labels'[client'[p].label] # NotYet /\ Fresh(client[p])'
    BY DEF FreshUnlessOvertaken, UpdatesKnown, Fresh, Unwritten
  <2>1. p # q /\ client'[p] = client[p]
    BY <1>4 DEF AtRest
  <2>2. client[p].label \in LabelIds
    BY <2>1, UpdateFields DEF LabelsInv, LabelsTypeOK
  <2>3. labels'[client[p].label] =
            IF client[p].label = l THEN Deleted ELSE labels[client[p].label]
    BY <1>2, <2>2 DEF LabelsInv, LabelsTypeOK
  <2>4. labels'[client'[p].label] # NotYet
    BY <2>1, <2>3, RowKinds DEF LabelsInv, UpdatesKnown
  <2>5. Fresh(client[p])
    BY <2>1 DEF LabelsInv, FreshUnlessOvertaken
  <2>6. Fresh(client[p])'
    BY <1>3, <2>1, <2>3, <2>5 DEF Fresh, Unwritten
  <2> QED BY <2>4, <2>6
<1> QED BY <1>6, <1>7, <1>8 DEF LabelsInv

\* attach, detach, the end of a request and the archival of an issue keep it.
LEMMA TagsInv ==
    ASSUME LabelsInv, NEW q \in Clients, AttachCommit(q) \/ DetachCommit(q) \/ Abandon(q)
    PROVE  LabelsInv'
<1>1. CASE AttachCommit(q)
  <2>1. client[q].issue \in TaggedIssues
    BY <1>1 DEF AttachCommit, LabelsInv, LabelsTypeOK, Doing, AtRest
  <2>2. tags' \in SUBSET (TaggedIssues \X Present)
    BY <1>1, <2>1 DEF AttachCommit, LabelsInv, LabelsTypeOK
  <2> QED BY <1>1, <2>2, EndsInv DEF AttachCommit, LabelsInv, LabelsTypeOK
<1>2. CASE DetachCommit(q)
  <2>1. tags' \in SUBSET (TaggedIssues \X Present)
    BY <1>2 DEF DetachCommit, LabelsInv, LabelsTypeOK
  <2> QED BY <1>2, <2>1, EndsInv DEF DetachCommit, LabelsInv, LabelsTypeOK
<1>3. CASE Abandon(q)
  BY <1>3, EndsInv DEF Abandon, LabelsInv, LabelsTypeOK
<1> QED BY <1>1, <1>2, <1>3

\* What a request of q reads keeps it.
LEMMA LabelReadsInv ==
    ASSUME LabelsInv, NEW q \in Clients, NEW l \in LabelIds
    PROVE  /\ \A name \in LabelNames, color \in Colors :
                  UpdateLabelRead(q, l, name, color) => LabelsInv'
           /\ DeleteLabelRead(q, l) => LabelsInv'
           /\ \A pc \in {"attach", "detach"}, i \in TaggedIssues :
                  TagRead(q, pc, i, l) => LabelsInv'
<1>1. ASSUME NEW name \in LabelNames, NEW color \in Colors,
             UpdateLabelRead(q, l, name, color)
      PROVE  LabelsInv'
  <2> DEFINE doing == [pc |-> "update", label |-> l, ask |-> Label(name, color),
                       loaded |-> labels[l], overtaken |-> {}]
  <2>1. labels[l] \in There
    BY <1>1, PresentRows DEF UpdateLabelRead, LabelsInv
  <2>2. doing \in Doing
    BY <2>1 DEF Doing, There, Label
  <2>3. Reads(q, doing)
    BY <1>1 DEF UpdateLabelRead
  <2> QED BY <2>2, <2>3, ReadsInv
<1>2. ASSUME DeleteLabelRead(q, l) PROVE LabelsInv'
  <2> DEFINE doing == [pc |-> "delete", label |-> l]
  <2>1. doing \in Doing /\ doing.pc # "update"
    BY DEF Doing
  <2>2. Reads(q, doing)
    BY <1>2 DEF DeleteLabelRead
  <2> QED BY <2>1, <2>2, ReadsInv
<1>3. ASSUME NEW pc \in {"attach", "detach"}, NEW i \in TaggedIssues, TagRead(q, pc, i, l)
      PROVE  LabelsInv'
  <2> DEFINE doing == [pc |-> pc, issue |-> i, label |-> l]
  <2>1. doing \in Doing /\ doing.pc # "update"
    BY DEF Doing
  <2>2. Reads(q, doing)
    BY <1>3 DEF TagRead
  <2> QED BY <2>1, <2>2, ReadsInv
<1> QED BY <1>1, <1>2, <1>3

\* The invariant of Labels.
THEOREM LabelsInvariant == LabelsSpec => []LabelsInv
<1>1. LabelsInv /\ [LabelsNext]_labelVars => LabelsInv'
  <2> SUFFICES ASSUME LabelsInv, [LabelsNext]_labelVars
               PROVE  LabelsInv'
    OBVIOUS
  <2>1. CASE UNCHANGED labelVars
    BY <2>1 DEF labelVars, LabelsInv, LabelsTypeOK, WholeUnlessOvertaken,
                FreshUnlessOvertaken, Fresh, Unwritten, UpdatesKnown, Present
  <2>2. ASSUME NEW i \in TaggedIssues, ArchiveIssue(i) PROVE LabelsInv'
    BY <2>2 DEF ArchiveIssue, LabelsInv, LabelsTypeOK, WholeUnlessOvertaken,
                FreshUnlessOvertaken, Fresh, Unwritten, UpdatesKnown, Present
  <2> QED
    BY <2>1, <2>2, CreateLabelInv, LabelReadsInv, UpdateLabelCommitInv,
       DeleteLabelCommitInv, TagsInv
    DEF LabelsNext
<1>2. QED
  BY <1>1, LabelsInitInv, PTL DEF LabelsSpec

\* Labels, tags and requests keep their types; issues carry labels that exist.
THEOREM LabelsTypesHold == LabelsSpec => []LabelsTypeOK
<1>1. LabelsInv => LabelsTypeOK
  BY DEF LabelsInv
<1>2. QED
  BY <1>1, LabelsInvariant, PTL

\* A column of a label is another request's than its last one's only when that
\* one did not write it and was overtaken, for any number of requests, labels,
\* names and colours.
THEOREM WholeUnlessOvertakenHolds == LabelsSpec => []WholeUnlessOvertaken
<1>1. LabelsInv => WholeUnlessOvertaken
  BY DEF LabelsInv
<1>2. QED
  BY <1>1, LabelsInvariant, PTL

-----------------------------------------------------------------------------
(* MCServices *)

\* A step of MCServices is a step of one part, which the others sit out.
LEMMA OnePartMoves ==
    ASSUME [Next]_vars
    PROVE  /\ [LimiterNext]_limiterVars
           /\ [LabelsNext]_labelVars
           /\ [ListingNext]_listingVars
<1>1. CASE UNCHANGED vars
  BY <1>1 DEF vars
<1>2. CASE Next
  BY <1>2 DEF Next
<1>3. QED
  BY <1>1, <1>2

\* What MCServices runs are runs of the rate limiter, of the labels and of the
\* listing: each of the three, beside the others, implements its own
\* specification, with the fairness that RefusalEnds needs.
THEOREM PartsImplement == Spec => LimiterSpec /\ LabelsSpec /\ ListingSpec
<1>1. Init => LimiterInit /\ LabelsInit /\ ListingInit
  BY DEF Init
<1>2. QED
  BY <1>1, OnePartMoves, PTL DEF Spec, LimiterSpec, LabelsSpec, ListingSpec

\* The types of the three parts hold together, and so does what each of them
\* promises.
THEOREM ServicesTypesHold == Spec => []TypeOK
<1>1. LimiterTypeOK /\ LabelsTypeOK /\ ListingTypeOK => TypeOK
  BY DEF TypeOK
<1>2. QED
  BY <1>1, PartsImplement, LimiterTypesHold, LabelsTypesHold, ListingTypesHold, PTL
=============================================================================
