--------------------------- MODULE Settings_proofs ---------------------------
(***************************************************************************)
(* That the live schedule is the one saved, and that a page saved on its   *)
(* own reaches the scores of every active job: for any number of users,    *)
(* jobs, answers, requests and runs.                                       *)
(***************************************************************************)
EXTENDS Settings, TLAPS

-----------------------------------------------------------------------------
(* The inductive invariant. *)

Stamps == [of : Scores, aged : BOOLEAN]

Changes == [prefs : Prefs \cup {Same}, profile : Profiles \cup {Same},
            scores : [Jobs -> Scores \cup {Same}], stamped : SUBSET Jobs,
            missing : SUBSET ({"prefs", "profile"} \cup Jobs)]

Pages == {"search", "mail"}
Plain == {"profile", "rescore", "run"}   \* they mean to leave the preferences alone

OpenTxns == [op : Pages \cup {"put"} \cup Plain, user : Users, changes : [Users -> Changes],
             channel : Channels \cup {Same}, alone : BOOLEAN, aged : BOOLEAN]
AppliedTxns == [op : {"apply"}, rules : Schedules]

SettingsType ==
    /\ prefs \in [Users -> Prefs \cup {NoDoc}]
    /\ profile \in [Users -> Profiles \cup {NoDoc}]
    /\ text \in [Jobs -> Texts \cup {Gone}]
    /\ scores \in [Users -> [Jobs -> Stamps \cup {Unscored}]]
    /\ channel \in Channels
    /\ txn \in [Workers -> OpenTxns \cup AppliedTxns \cup {Idle}]
    /\ touched \in [Runs -> (SUBSET Jobs) \cup {Idle}]

IsOpen(w) == txn[w] # Idle /\ txn[w] \in OpenTxns

\* Preferences are written by the pages and the API, for one user; whatever else
\* writes them inserts the defaults for a user who has none.
KeepsPrefs(t, u) ==
    \/ t.changes[u].prefs = Same
    \/ t.changes[u].prefs = DefaultPrefs /\ "prefs" \in t.changes[u].missing
    \/ t.op \notin Plain /\ u = t.user

Modest(w) ==
    IsOpen(w) => /\ w \in Runs => txn[w].op = "run"
                 /\ \A u \in Users : KeepsPrefs(txn[w], u)

\* A score that is left as it is exists.
Grounded(w) ==
    IsOpen(w) => \A u \in Users : \A j \in txn[w].changes[u].stamped :
        txn[w].changes[u].scores[j] = Same => scores[u][j] # Unscored

\* What is left of the score of j is the one that p and f give.
Scored(c, u, j, p, f) ==
    \/ c.scores[j] = ScoreWith(p, f, text[j])
    \/ c.scores[j] = Same /\ scores[u][j] # Unscored /\ scores[u][j].of = ScoreWith(p, f, text[j])

\* A page whose transaction is alone is about to write one pair of documents, and
\* the scores they give to the active jobs of now.
Consistent(c, u) ==
    \E p \in Prefs, f \in Profiles :
        /\ f.sponsor = p.sponsor
        /\ c.prefs = Written(prefs[u], p) /\ c.profile = Written(profile[u], f)
        /\ c.stamped = Active
        /\ \A j \in Active : Scored(c, u, j, p, f)

Fresh(w) ==
    IsOpen(w) /\ txn[w].op \in Pages /\ txn[w].alone
        => Consistent(txn[w].changes[txn[w].user], txn[w].user)

SaveUnderWay(q) == Saving(q) \/ Committed(q)

\* While it is calm, one save at a time is under way, and the schedule is live or
\* about to be.
OneSave == \A q, o \in Requests : SaveUnderWay(q) /\ SaveUnderWay(o) => q = o
AboutToBeLive == \A q \in Requests : Committed(q) => txn[q].rules = PrefsOf(Oldest).schedule
Live == ~(\E q \in Requests : Committed(q)) => live = Rescheduled({}, PrefsOf(Oldest).schedule)

SInv ==
    /\ SettingsType
    /\ \A w \in Workers : Modest(w) /\ Grounded(w) /\ Fresh(w)
    /\ calm => OneSave /\ AboutToBeLive /\ Live

-----------------------------------------------------------------------------
(* What the transactions are made of. *)

LEMMA DocumentsType ==
    ASSUME SettingsType, NEW u \in Users
    PROVE  PrefsOf(u) \in Prefs /\ ProfileOf(u) \in Profiles
  BY SettingsAssumption DEF SettingsType, PrefsOf, ProfileOf

LEMMA ScoreWithType ==
    ASSUME NEW p \in Prefs, NEW f \in Profiles, NEW t \in Texts \cup {Gone}
    PROVE  ScoreWith(p, f, t) \in Scores
  BY DEF ScoreWith, NeedsSponsorship, Scores, Prefs, Profiles

\* Setting one user's documents and scoring some jobs with them.
LEMMA ChangeFacts ==
    ASSUME SettingsType, NEW u \in Users, NEW p \in Prefs, NEW f \in Profiles, NEW J \in SUBSET Jobs
    PROVE  /\ Change(u, p, f, J) \in Changes
           /\ Change(u, p, f, J).prefs = Written(prefs[u], p)
           /\ Change(u, p, f, J).profile = Written(profile[u], f)
           /\ Change(u, p, f, J).stamped = J
           /\ \A j \in J : Scored(Change(u, p, f, J), u, j, p, f)
           /\ prefs[u] = NoDoc => "prefs" \in Change(u, p, f, J).missing
<1> DEFINE c == Change(u, p, f, J)
<1>1. \A j \in Jobs : ScoreWith(p, f, text[j]) \in Scores
  BY ScoreWithType DEF SettingsType
<1>2. c.scores \in [Jobs -> Scores \cup {Same}]
  BY <1>1 DEF Change
<1>3. c.prefs \in Prefs \cup {Same} /\ c.profile \in Profiles \cup {Same}
  BY DEF Change, Written
<1>4. c.stamped = J /\ c.missing \in SUBSET ({"prefs", "profile"} \cup Jobs)
  BY DEF Change
<1>5. c = [prefs |-> c.prefs, profile |-> c.profile, scores |-> c.scores,
           stamped |-> c.stamped, missing |-> c.missing]
  BY DEF Change
<1>6. c \in Changes
  BY <1>2, <1>3, <1>4, <1>5 DEF Changes
<1>7. \A j \in J : c.scores[j] = IF scores[u][j] # Unscored /\ scores[u][j].of = ScoreWith(p, f, text[j])
                                 THEN Same ELSE ScoreWith(p, f, text[j])
  BY DEF Change
<1>8. \A j \in J : Scored(c, u, j, p, f)
  BY <1>7 DEF Scored
<1>9. prefs[u] = NoDoc => "prefs" \in c.missing
  BY DEF Change
<1> QED
  BY <1>3, <1>4, <1>6, <1>8, <1>9 DEF Change

LEMMA WithoutFacts ==
    ASSUME NEW c \in Changes
    PROVE  /\ Without(c, "prefs") \in Changes /\ Without(c, "profile") \in Changes
           /\ Without(c, "prefs").prefs = Same
           /\ Without(c, "prefs").scores = c.scores /\ Without(c, "prefs").stamped = c.stamped
           /\ Without(c, "profile").scores = c.scores /\ Without(c, "profile").stamped = c.stamped
  BY DEF Without, Changes

LEMMA NoChangeFacts ==
    /\ NoChange \in Changes
    /\ NoChange.prefs = Same /\ NoChange.stamped = {}
  BY DEF NoChange, Changes

LEMMA ForFacts ==
    ASSUME NEW u \in Users, NEW c \in Changes
    PROVE  /\ For(u, c) \in [Users -> Changes]
           /\ For(u, c)[u] = c
           /\ \A v \in Users \ {u} : For(u, c)[v] = NoChange
  BY NoChangeFacts DEF For

LEMMA ChannelFacts ==
    ASSUME SettingsType, NEW h \in Hosts \cup {Blank}, NEW b \in BOOLEAN
    PROVE  /\ ChannelAfter(h, b) \in Channels
           /\ Written(channel, ChannelAfter(h, b)) \in Channels \cup {Same}
  BY DEF SettingsType, ChannelAfter, Channels, Written

LEMMA ReadyType ==
    ASSUME NEW c
    PROVE  Ready(c) \in BOOLEAN
  BY DEF Ready

-----------------------------------------------------------------------------
(* Other transactions, as one of them goes on. *)

\* Of another's transaction, a step tells it at most that it is no longer alone,
\* or that a day has passed.
Ripple(w) ==
    /\ txn'[w] \in OpenTxns \cup AppliedTxns \cup {Idle}
    /\ IsOpen(w)' => /\ IsOpen(w)
                     /\ txn'[w].op = txn[w].op /\ txn'[w].user = txn[w].user
                     /\ txn'[w].changes = txn[w].changes
                     /\ txn'[w].alone => txn[w].alone
    /\ Committed(w)' => txn'[w] = txn[w]
    /\ Committed(w) => txn'[w] = txn[w]

LEMMA UntouchedRipples ==
    ASSUME SettingsType, NEW w \in Workers, txn'[w] = txn[w]
    PROVE  Ripple(w)
  BY DEF Ripple, SettingsType, IsOpen

\* What is neither idle nor committed is open.
LEMMA OpenOrNot ==
    ASSUME SettingsType, NEW w \in Workers
    PROVE  /\ txn[w] = Idle \/ Committed(w) \/ IsOpen(w)
           /\ IsOpen(w) => ~Committed(w)
           /\ Saving(w) => IsOpen(w) /\ txn[w].op \notin Plain
           /\ IsOpen(w) /\ txn[w].op \notin Plain => Saving(w)
           /\ Committed(w) => txn[w] \in AppliedTxns
  BY DEF SettingsType, IsOpen, Committed, Saving, OpenTxns, AppliedTxns, Pages, Plain

LEMMA DisturbedRipples ==
    ASSUME SettingsType, NEW w \in Workers, txn'[w] = Disturbed[w]
    PROVE  Ripple(w) /\ (IsOpen(w)' => ~txn'[w].alone)
<1>1. CASE txn[w] = Idle \/ Committed(w)
  <2>1. txn'[w] = txn[w]
    BY <1>1 DEF Disturbed
  <2>2. ~IsOpen(w)'
    BY <1>1, <2>1, OpenOrNot DEF IsOpen
  <2> QED
    BY <2>1, <2>2, UntouchedRipples
<1>2. CASE ~(txn[w] = Idle \/ Committed(w))
  <2>1. IsOpen(w)
    BY <1>2, OpenOrNot
  <2>2. txn'[w] = [txn[w] EXCEPT !.alone = FALSE]
    BY <1>2 DEF Disturbed
  <2>3. txn'[w] \in OpenTxns /\ ~txn'[w].alone
    BY <2>1, <2>2 DEF IsOpen, OpenTxns
  <2>4. ~Committed(w)'
    BY <2>3 DEF Committed, OpenTxns, Pages, Plain
  <2>5. txn'[w].op = txn[w].op /\ txn'[w].user = txn[w].user /\ txn'[w].changes = txn[w].changes
    BY <2>1, <2>2 DEF IsOpen, OpenTxns
  <2> QED
    BY <1>2, <2>1, <2>3, <2>4, <2>5 DEF Ripple
<1> QED
  BY <1>1, <1>2

LEMMA AgedRipples ==
    ASSUME SettingsType, NEW w \in Workers,
           txn'[w] = IF txn[w] = Idle \/ Committed(w) THEN txn[w] ELSE [txn[w] EXCEPT !.aged = TRUE]
    PROVE  Ripple(w)
<1>1. CASE txn[w] = Idle \/ Committed(w)
  BY <1>1, UntouchedRipples
<1>2. CASE ~(txn[w] = Idle \/ Committed(w))
  <2>1. IsOpen(w)
    BY <1>2, OpenOrNot
  <2>2. txn'[w] = [txn[w] EXCEPT !.aged = TRUE]
    BY <1>2
  <2>3. txn'[w] \in OpenTxns
    BY <2>1, <2>2 DEF IsOpen, OpenTxns
  <2>4. ~Committed(w)'
    BY <2>3 DEF Committed, OpenTxns, Pages, Plain
  <2>5. /\ txn'[w].op = txn[w].op /\ txn'[w].user = txn[w].user /\ txn'[w].changes = txn[w].changes
        /\ txn'[w].alone = txn[w].alone
    BY <2>1, <2>2 DEF IsOpen, OpenTxns
  <2> QED
    BY <1>2, <2>1, <2>3, <2>4, <2>5 DEF Ripple
<1> QED
  BY <1>1, <1>2

\* Scores are only ever added.
NoneLost == \A u \in Users, j \in Jobs : scores[u][j] # Unscored => scores'[u][j] # Unscored

\* Nothing a page relies on has changed.
Standing ==
    /\ UNCHANGED docs
    /\ \A u \in Users, j \in Jobs : scores[u][j] # Unscored => scores'[u][j].of = scores[u][j].of

LEMMA RippleKeeps ==
    ASSUME SInv, NEW w \in Workers, Ripple(w), NoneLost,
           IsOpen(w)' /\ txn'[w].alone => Standing
    PROVE  Modest(w)' /\ Grounded(w)' /\ Fresh(w)'
<1>1. SUFFICES ASSUME IsOpen(w)'
               PROVE  Modest(w)' /\ Grounded(w)' /\ Fresh(w)'
  BY DEF Modest, Grounded, Fresh
<1>2. /\ IsOpen(w)
      /\ txn'[w].op = txn[w].op /\ txn'[w].user = txn[w].user
      /\ txn'[w].changes = txn[w].changes
      /\ txn'[w].alone => txn[w].alone
  BY <1>1 DEF Ripple
<1>3. txn[w] \in OpenTxns /\ Modest(w) /\ Grounded(w) /\ Fresh(w)
  BY <1>2 DEF SInv, IsOpen
<1>4. \A u \in Users : txn[w].changes[u] \in Changes /\ txn[w].changes[u].stamped \subseteq Jobs
  BY <1>3 DEF OpenTxns, Changes
<1>5. Modest(w)'
  BY <1>2, <1>3 DEF Modest, KeepsPrefs
<1>6. Grounded(w)'
  BY <1>2, <1>3, <1>4 DEF Grounded, NoneLost
<1>7. ASSUME txn'[w].op \in Pages, txn'[w].alone
      PROVE  Consistent(txn[w].changes[txn[w].user], txn[w].user)'
  <2> DEFINE u == txn[w].user
             c == txn[w].changes[u]
  <2>1. Standing /\ NoneLost
    BY <1>1, <1>7
  <2>2. u \in Users /\ c \in Changes
    BY <1>3, <1>4 DEF OpenTxns
  <2>3. PICK p \in Prefs, f \in Profiles :
            /\ f.sponsor = p.sponsor
            /\ c.prefs = Written(prefs[u], p) /\ c.profile = Written(profile[u], f)
            /\ c.stamped = Active
            /\ \A j \in Active : Scored(c, u, j, p, f)
    BY <1>2, <1>3, <1>7 DEF Fresh, Consistent
  <2>4. Active' = Active /\ Active \subseteq Jobs
    BY <2>1 DEF Active, Standing, docs
  <2>5. \A j \in Active : Scored(c, u, j, p, f) => \/ c.scores[j] = ScoreWith(p, f, text'[j])
                            \/ /\ c.scores[j] = Same /\ scores'[u][j] # Unscored
                               /\ scores'[u][j].of = ScoreWith(p, f, text'[j])
    BY <2>1, <2>2, <2>4 DEF Scored, Standing, NoneLost, docs
  <2>6. txn'[w].user = u /\ txn'[w].changes = txn[w].changes
    BY <1>2
  <2>7. prefs' = prefs /\ profile' = profile
    BY <2>1 DEF Standing, docs
  <2>8. \A j \in Active : Scored(c, u, j, p, f)'
    BY <2>3, <2>5, <2>6 DEF Scored
  <2>9. /\ c' = c /\ u' = u
        /\ c.prefs = Written(prefs'[u], p) /\ c.profile = Written(profile'[u], f)
    BY <2>3, <2>6, <2>7
  <2>10. \A j \in Active' : Scored(c, u, j, p, f)'
    BY <2>4, <2>8
  <2> QED
    BY <2>3, <2>4, <2>9, <2>10 DEF Consistent
<1>8. Fresh(w)'
  BY <1>7 DEF Fresh
<1> QED
  BY <1>5, <1>6, <1>8

-----------------------------------------------------------------------------
(* The beginning of a transaction. *)

LEMMA SettingsInit_SInv == SettingsInit => SInv
<1> SUFFICES ASSUME SettingsInit
             PROVE  SInv
  OBVIOUS
<1>1. SettingsType
  BY DEF SettingsInit, SettingsType, Channels
<1>2. \A w \in Workers : txn[w] = Idle
  BY DEF SettingsInit
<1>3. \A w \in Workers : Modest(w) /\ Grounded(w) /\ Fresh(w)
  BY <1>2 DEF Modest, Grounded, Fresh, IsOpen
<1>4. OneSave /\ AboutToBeLive
  BY <1>2 DEF OneSave, AboutToBeLive, SaveUnderWay, Saving, Committed, Workers
<1>5. PrefsOf(Oldest) = DefaultPrefs
  BY SettingsAssumption DEF SettingsInit, PrefsOf
<1>6. Live
  BY <1>5 DEF Live, SettingsInit
<1> QED
  BY <1>1, <1>3, <1>4, <1>6 DEF SInv

\* All that is asked of a transaction that begins.
Sound(w, op, u, changes) ==
    /\ op \in Pages \cup {"put"} \cup Plain /\ u \in Users /\ changes \in [Users -> Changes]
    /\ w \in Runs => op = "run"
    /\ \A v \in Users : \/ changes[v].prefs = Same
                        \/ changes[v].prefs = DefaultPrefs /\ "prefs" \in changes[v].missing
                        \/ op \notin Plain /\ v = u
    /\ \A v \in Users : \A j \in changes[v].stamped : changes[v].scores[j] = Same => scores[v][j] # Unscored
    /\ op \in Pages => Consistent(changes[u], u)

LEMMA OpenKeeps ==
    ASSUME SInv, NEW w \in Workers, NEW op, NEW u, NEW changes, NEW c \in Channels \cup {Same},
           Sound(w, op, u, changes), Open(w, op, u, changes, c),
           calm' => calm /\ (op \notin Plain => \A o \in Requests : ~SaveUnderWay(o)),
           UNCHANGED <<docs, scores, channel, live, touched>>
    PROVE  SInv'
<1> DEFINE t == [op |-> op, user |-> u, changes |-> changes, channel |-> c, alone |-> TRUE, aged |-> FALSE]
<1>1. SettingsType /\ txn \in [Workers -> OpenTxns \cup AppliedTxns \cup {Idle}]
  BY DEF SInv, SettingsType
<1>2. t \in OpenTxns
  BY DEF OpenTxns, Sound
<1>3. txn[w] = Idle /\ txn'[w] = t /\ \A o \in Workers \ {w} : txn'[o] = txn[o]
  BY <1>1 DEF Open
<1>4. txn' \in [Workers -> OpenTxns \cup AppliedTxns \cup {Idle}]
  BY <1>1, <1>2 DEF Open
<1>5. SettingsType'
  BY <1>1, <1>4 DEF SettingsType, docs
<1>6. \A o \in Workers \ {w} : Ripple(o)
  BY <1>1, <1>3, UntouchedRipples
<1>7. Standing /\ NoneLost
  BY DEF Standing, NoneLost
<1>8. \A o \in Workers \ {w} : Modest(o)' /\ Grounded(o)' /\ Fresh(o)'
  BY <1>6, <1>7, RippleKeeps
<1>9. /\ txn'[w].op = op /\ txn'[w].user = u /\ txn'[w].changes = changes
  BY <1>3
<1>10. Modest(w)'
  BY <1>9 DEF Modest, KeepsPrefs, Sound
<1>11. Grounded(w)'
  BY <1>9 DEF Grounded, Sound
<1>12. Fresh(w)'
  <2>1. (op \in Pages => Consistent(changes[u], u)) /\ prefs' = prefs /\ profile' = profile
        /\ text' = text /\ scores' = scores
    BY DEF Sound, docs
  <2>2. op \in Pages => Consistent(txn[w].changes[txn[w].user], txn[w].user)'
    BY <1>9, <2>1 DEF Consistent, Scored, Active
  <2> QED
    BY <1>9, <2>2 DEF Fresh
<1>13. ~Committed(w)' /\ (Saving(w)' => op \notin Plain)
  <2>1. op # "apply"
    BY DEF Sound, Pages, Plain
  <2> QED
    BY <1>9, <2>1 DEF Committed, Saving, Plain
<1>14. ~Committed(w)
  BY <1>3 DEF Committed
<1>15. \A o \in Workers : /\ Committed(o)' <=> Committed(o)
                          /\ o # w => (SaveUnderWay(o)' <=> SaveUnderWay(o)) /\ txn'[o] = txn[o]
  BY <1>3, <1>13, <1>14 DEF Committed, SaveUnderWay, Saving
<1>16. PrefsOf(Oldest)' = PrefsOf(Oldest) /\ live' = live
  BY DEF PrefsOf, docs
<1>17. ASSUME calm'
       PROVE  OneSave' /\ AboutToBeLive' /\ Live'
  <2>1. OneSave /\ AboutToBeLive /\ Live /\ (op \notin Plain => \A o \in Requests : ~SaveUnderWay(o))
    BY <1>17 DEF SInv
  <2>2. SaveUnderWay(w)' => op \notin Plain
    BY <1>13 DEF SaveUnderWay
  <2>3. OneSave'
    BY <2>1, <2>2, <1>15 DEF OneSave, Workers
  <2>4. AboutToBeLive'
    BY <2>1, <1>14, <1>15, <1>16 DEF AboutToBeLive, Workers
  <2>5. Live'
    BY <2>1, <1>15, <1>16 DEF Live, Workers
  <2> QED
    BY <2>3, <2>4, <2>5
<1> QED
  BY <1>5, <1>8, <1>10, <1>11, <1>12, <1>17 DEF SInv

\* A page writes the answers on it and its copy of one of them.
LEMMA PageIsSound ==
    ASSUME SInv, NEW w \in Requests, NEW op \in Pages, NEW u \in Users, NEW p \in Prefs
    PROVE  Sound(w, op, u, For(u, SettingsChange(u, p)))
<1> DEFINE f == [ProfileOf(u) EXCEPT !.sponsor = p.sponsor]
           c == SettingsChange(u, p)
<1>1. SettingsType
  BY DEF SInv
<1>2. f \in Profiles /\ f.sponsor = p.sponsor
  BY <1>1, DocumentsType DEF Profiles, Prefs
<1>3. Active \in SUBSET Jobs
  BY DEF Active
<1>4. /\ c \in Changes /\ c.prefs = Written(prefs[u], p) /\ c.profile = Written(profile[u], f)
      /\ c.stamped = Active /\ \A j \in Active : Scored(c, u, j, p, f)
  BY <1>1, <1>2, <1>3, ChangeFacts DEF SettingsChange
<1>5. Consistent(c, u)
  BY <1>2, <1>4 DEF Consistent
<1>6. \A j \in Active : c.scores[j] = Same => scores[u][j] # Unscored
  <2>1. \A j \in Active : ScoreWith(p, f, text[j]) \in Scores
    BY <1>1, <1>2, ScoreWithType DEF Active, SettingsType
  <2> QED
    BY <1>4, <2>1, AbsentAssumption DEF Scored
<1> HIDE DEF c
<1>7. /\ For(u, c) \in [Users -> Changes] /\ For(u, c)[u] = c
      /\ \A v \in Users \ {u} : For(u, c)[v] = NoChange
  BY <1>4, ForFacts
<1>8. NoChange.prefs = Same /\ NoChange.stamped = {}
  BY NoChangeFacts
<1>9. w \notin Runs /\ op \notin Plain
  BY SettingsAssumption DEF Pages, Plain
<1>10. \A v \in Users : \/ For(u, c)[v].prefs = Same
                        \/ op \notin Plain /\ v = u
  BY <1>7, <1>8, <1>9
<1>11. \A v \in Users : \A j \in For(u, c)[v].stamped :
          For(u, c)[v].scores[j] = Same => scores[v][j] # Unscored
  BY <1>4, <1>6, <1>7, <1>8
<1> QED
  BY <1>5, <1>7, <1>9, <1>10, <1>11 DEF Sound, c

\* Whatever loads a user's preferences without setting them.
LEMMA PlainChange ==
    ASSUME SInv, NEW u \in Users, NEW f \in Profiles, NEW J \in SUBSET Jobs
    PROVE  LET c == Change(u, PrefsOf(u), f, J) IN
           /\ c \in Changes
           /\ c.prefs = Same \/ (c.prefs = DefaultPrefs /\ "prefs" \in c.missing)
           /\ \A j \in c.stamped : c.scores[j] = Same => scores[u][j] # Unscored
<1> DEFINE c == Change(u, PrefsOf(u), f, J)
<1>1. SettingsType /\ PrefsOf(u) \in Prefs
  BY DocumentsType DEF SInv
<1>2. /\ c \in Changes /\ c.prefs = Written(prefs[u], PrefsOf(u)) /\ c.stamped = J
      /\ \A j \in J : Scored(c, u, j, PrefsOf(u), f)
      /\ prefs[u] = NoDoc => "prefs" \in c.missing
  BY <1>1, ChangeFacts
<1>3. c.prefs = Same \/ (c.prefs = DefaultPrefs /\ "prefs" \in c.missing)
  BY <1>2 DEF Written, PrefsOf
<1>4. \A j \in J : ScoreWith(PrefsOf(u), f, text[j]) \in Scores
  BY <1>1, ScoreWithType DEF SettingsType
<1>5. \A j \in J : c.scores[j] = Same => scores[u][j] # Unscored
  BY <1>2, <1>4, AbsentAssumption DEF Scored
<1> QED
  BY <1>2, <1>3, <1>5

\* One user's documents are loaded, and only the profile is meant to change.
LEMMA PlainIsSound ==
    ASSUME SInv, NEW w \in Workers, NEW op \in Plain, w \in Runs => op = "run",
           NEW changes \in [Users -> Changes],
           \A v \in Users : \/ changes[v].prefs = Same
                            \/ changes[v].prefs = DefaultPrefs /\ "prefs" \in changes[v].missing,
           \A v \in Users : \A j \in changes[v].stamped : changes[v].scores[j] = Same => scores[v][j] # Unscored,
           NEW u \in Users
    PROVE  Sound(w, op, u, changes)
  BY DEF Sound, Pages, Plain

\* For one user only.
LEMMA PlainForIsSound ==
    ASSUME SInv, NEW w \in Requests, NEW u \in Users, NEW c \in Changes,
           c.prefs = Same \/ (c.prefs = DefaultPrefs /\ "prefs" \in c.missing),
           \A j \in c.stamped : c.scores[j] = Same => scores[u][j] # Unscored
    PROVE  Sound(w, "profile", u, For(u, c))
<1>1. /\ For(u, c) \in [Users -> Changes] /\ For(u, c)[u] = c
      /\ \A v \in Users \ {u} : For(u, c)[v] = NoChange
      /\ NoChange.prefs = Same /\ NoChange.stamped = {}
  BY ForFacts, NoChangeFacts
<1>2. \A v \in Users : \/ For(u, c)[v].prefs = Same
                       \/ For(u, c)[v].prefs = DefaultPrefs /\ "prefs" \in For(u, c)[v].missing
  BY <1>1
<1>3. \A v \in Users : \A j \in For(u, c)[v].stamped :
          For(u, c)[v].scores[j] = Same => scores[v][j] # Unscored
  BY <1>1
<1>4. w \in Workers /\ w \notin Runs /\ "profile" \in Plain
  BY SettingsAssumption DEF Workers, Plain
<1> QED
  BY <1>1, <1>2, <1>3, <1>4, PlainIsSound

-----------------------------------------------------------------------------
(* Step by step. *)

LEMMA SubmitKeeps ==
    ASSUME SInv, NEW q \in Requests, Submit(q)
    PROVE  SInv'
<1>1. SettingsType /\ q \in Workers /\ UNCHANGED <<docs, scores, channel, live, touched>>
  BY DEF SInv, Submit, Workers
<1>2. calm' => calm /\ \A o \in Requests : ~SaveUnderWay(o)
  BY DEF Submit, SaveUnderWay
<1>3. Oldest \in Users /\ Same \in Channels \cup {Same}
  BY SettingsAssumption
<1>4. ASSUME NEW u \in Users, SaveSearchPage(q, u)
      PROVE  SInv'
  <2>1. PICK k \in Keywords, s \in BOOLEAN :
          LET c == ChannelAfter(Blank, FALSE)
              p == [PrefsOf(u) EXCEPT !.keywords = k, !.sponsor = s, !.digests = @ /\ Ready(c)]
          IN  Open(q, "search", u, For(u, SettingsChange(u, p)), Written(channel, c))
    BY <1>4 DEF SaveSearchPage
  <2> DEFINE c == ChannelAfter(Blank, FALSE)
             p == [PrefsOf(u) EXCEPT !.keywords = k, !.sponsor = s, !.digests = @ /\ Ready(c)]
  <2>2. p \in Prefs
    BY <1>1, DocumentsType, ReadyType, SettingsAssumption DEF Prefs
  <2>3. Written(channel, c) \in Channels \cup {Same}
    BY <1>1, ChannelFacts
  <2>4. Open(q, "search", u, For(u, SettingsChange(u, p)), Written(channel, c))
    BY <2>1
  <2> HIDE DEF c, p
  <2>5. Sound(q, "search", u, For(u, SettingsChange(u, p)))
    BY <2>2, PageIsSound DEF Pages
  <2> QED
    BY <1>1, <1>2, <2>3, <2>4, <2>5, OpenKeeps
<1>5. ASSUME NEW u \in Users, SaveMailPage(q, u)
      PROVE  SInv'
  <2>1. PICK d \in Digests, s \in Schedules, h \in Hosts \cup {Blank}, secret \in Passwords :
          LET c == ChannelAfter(h, secret)
              p == [keywords |-> Blank, sponsor |-> FALSE, digests |-> d /\ Ready(c), schedule |-> s]
          IN  Open(q, "mail", u, For(u, SettingsChange(u, p)), Written(channel, c))
    BY <1>5 DEF SaveMailPage
  <2> DEFINE c == ChannelAfter(h, secret)
             p == [keywords |-> Blank, sponsor |-> FALSE, digests |-> d /\ Ready(c), schedule |-> s]
  <2>2. p \in Prefs
    BY SettingsAssumption, ReadyType DEF Prefs
  <2>3. Written(channel, c) \in Channels \cup {Same}
    BY <1>1, ChannelFacts, SettingsAssumption
  <2>4. Open(q, "mail", u, For(u, SettingsChange(u, p)), Written(channel, c))
    BY <2>1
  <2> HIDE DEF c, p
  <2>5. Sound(q, "mail", u, For(u, SettingsChange(u, p)))
    BY <2>2, PageIsSound DEF Pages
  <2> QED
    BY <1>1, <1>2, <2>3, <2>4, <2>5, OpenKeeps
<1>6. ASSUME NEW u \in Users, SaveProfilePage(q, u)
      PROVE  SInv'
  <2>1. PICK s \in Skills :
          LET c == Change(u, PrefsOf(u), [ProfileOf(u) EXCEPT !.skills = s], Active)
          IN  Open(q, "profile", u, For(u, IF Active = {} THEN Without(c, "prefs") ELSE c), Same)
    BY <1>6 DEF SaveProfilePage
  <2> DEFINE f == [ProfileOf(u) EXCEPT !.skills = s]
             c == Change(u, PrefsOf(u), f, Active)
             d == IF Active = {} THEN Without(c, "prefs") ELSE c
  <2>2. f \in Profiles /\ Active \in SUBSET Jobs
    BY <1>1, DocumentsType DEF Profiles, Active
  <2>3. Open(q, "profile", u, For(u, d), Same)
    BY <2>1
  <2> HIDE DEF f
  <2>4. /\ c \in Changes /\ (c.prefs = Same \/ (c.prefs = DefaultPrefs /\ "prefs" \in c.missing))
        /\ \A j \in c.stamped : c.scores[j] = Same => scores[u][j] # Unscored
    BY <2>2, PlainChange
  <2> HIDE DEF c
  <2>5. /\ d \in Changes /\ (d.prefs = Same \/ (d.prefs = DefaultPrefs /\ "prefs" \in d.missing))
        /\ \A j \in d.stamped : d.scores[j] = Same => scores[u][j] # Unscored
    BY <2>4, WithoutFacts
  <2> HIDE DEF d
  <2>6. Sound(q, "profile", u, For(u, d))
    BY <2>5, PlainForIsSound
  <2> QED
    BY <1>1, <1>2, <1>3, <2>3, <2>6, OpenKeeps
<1>7. CASE PutPreferences(q)
  <2>1. PICK p \in Prefs :
          Open(q, "put", Oldest,
               For(Oldest, Without(Change(Oldest, p, ProfileOf(Oldest), {}), "profile")), Same)
    BY <1>7 DEF PutPreferences
  <2> DEFINE c == Change(Oldest, p, ProfileOf(Oldest), {})
             d == Without(c, "profile")
  <2>2. ProfileOf(Oldest) \in Profiles
    BY <1>1, <1>3, DocumentsType
  <2>3. c \in Changes /\ c.stamped = {}
    BY <1>1, <1>3, <2>2, ChangeFacts
  <2>4. Open(q, "put", Oldest, For(Oldest, d), Same)
    BY <2>1
  <2> HIDE DEF c
  <2>5. d \in Changes /\ d.stamped = {}
    BY <2>3, WithoutFacts
  <2> HIDE DEF d
  <2>6. /\ For(Oldest, d) \in [Users -> Changes] /\ For(Oldest, d)[Oldest] = d
        /\ \A v \in Users \ {Oldest} : For(Oldest, d)[v] = NoChange
        /\ NoChange.prefs = Same /\ NoChange.stamped = {}
    BY <1>3, <2>5, ForFacts, NoChangeFacts
  <2>7. \A v \in Users : For(Oldest, d)[v].stamped = {}
                         /\ (For(Oldest, d)[v].prefs = Same \/ v = Oldest)
    BY <2>5, <2>6
  <2>8. q \notin Runs
    BY SettingsAssumption
  <2>9. Sound(q, "put", Oldest, For(Oldest, d))
    BY <1>3, <2>6, <2>7, <2>8 DEF Sound, Pages, Plain
  <2> QED
    BY <1>1, <1>2, <1>3, <2>4, <2>9, OpenKeeps
<1>8. CASE PutProfile(q)
  <2>1. PICK f \in Profiles :
          Open(q, "profile", Oldest,
               For(Oldest, Without(Change(Oldest, PrefsOf(Oldest), f, {}), "prefs")), Same)
    BY <1>8 DEF PutProfile
  <2> DEFINE c == Change(Oldest, PrefsOf(Oldest), f, {})
             d == Without(c, "prefs")
  <2>2. /\ c \in Changes
        /\ \A j \in c.stamped : c.scores[j] = Same => scores[Oldest][j] # Unscored
    BY <1>3, PlainChange
  <2>3. Open(q, "profile", Oldest, For(Oldest, d), Same)
    BY <2>1
  <2> HIDE DEF c
  <2>4. /\ d \in Changes /\ d.prefs = Same
        /\ \A j \in d.stamped : d.scores[j] = Same => scores[Oldest][j] # Unscored
    BY <2>2, WithoutFacts
  <2> HIDE DEF d
  <2>5. Sound(q, "profile", Oldest, For(Oldest, d))
    BY <1>3, <2>4, PlainForIsSound
  <2> QED
    BY <1>1, <1>2, <1>3, <2>3, <2>5, OpenKeeps
<1>9. CASE RescoreAll(q)
  <2> DEFINE changes == [u \in Users |-> Change(u, PrefsOf(u), ProfileOf(u), Active)]
  <2>1. Open(q, "rescore", Oldest, changes, Same)
    BY <1>9 DEF RescoreAll
  <2>2. \A u \in Users : ProfileOf(u) \in Profiles /\ Active \in SUBSET Jobs
    BY <1>1, DocumentsType DEF Active
  <2>3. \A u \in Users :
          /\ changes[u] \in Changes
          /\ changes[u].prefs = Same \/ (changes[u].prefs = DefaultPrefs /\ "prefs" \in changes[u].missing)
          /\ \A j \in changes[u].stamped : changes[u].scores[j] = Same => scores[u][j] # Unscored
    BY <2>2, PlainChange
  <2>4. changes \in [Users -> Changes]
    BY <2>3
  <2> HIDE DEF changes
  <2>5. "rescore" \in Plain /\ q \notin Runs
    BY SettingsAssumption DEF Plain
  <2>6. Sound(q, "rescore", Oldest, changes)
    BY <1>1, <1>3, <2>3, <2>4, <2>5, PlainIsSound
  <2> QED
    BY <1>1, <1>2, <1>3, <2>1, <2>6, OpenKeeps
<1> QED
  BY <1>4, <1>5, <1>6, <1>7, <1>8, <1>9 DEF Submit

LEMMA RunScoreKeeps ==
    ASSUME SInv, NEW r \in Runs, RunScore(r)
    PROVE  SInv'
<1> DEFINE changes == [u \in Users |-> Change(u, PrefsOf(u), ProfileOf(u), RunScores(u, touched[r]))]
<1>1. SettingsType /\ r \in Workers /\ Oldest \in Users /\ UNCHANGED <<docs, scores, channel, live, touched, calm>>
  BY SettingsAssumption DEF SInv, RunScore, Workers
<1>2. Open(r, "run", Oldest, changes, Same)
  BY DEF RunScore
<1>3. \A u \in Users : ProfileOf(u) \in Profiles /\ RunScores(u, touched[r]) \in SUBSET Jobs
  BY <1>1, DocumentsType DEF RunScores, Active
<1>4. \A u \in Users :
        /\ changes[u] \in Changes
        /\ changes[u].prefs = Same \/ (changes[u].prefs = DefaultPrefs /\ "prefs" \in changes[u].missing)
        /\ \A j \in changes[u].stamped : changes[u].scores[j] = Same => scores[u][j] # Unscored
  BY <1>3, PlainChange
<1>5. changes \in [Users -> Changes]
  BY <1>4
<1> HIDE DEF changes
<1>6. Sound(r, "run", Oldest, changes)
  BY <1>1, <1>4, <1>5, PlainIsSound DEF Plain
<1> QED
  BY <1>1, <1>2, <1>6, OpenKeeps DEF Plain

\* A step that leaves the preferences, the schedule and the saves as they are.
LEMMA CalmStays ==
    ASSUME SInv, calm' => calm, PrefsOf(Oldest)' = PrefsOf(Oldest), live' = live,
           \A q \in Requests : /\ SaveUnderWay(q)' => SaveUnderWay(q)
                               /\ Committed(q)' => txn'[q] = txn[q]
                               /\ Committed(q) => txn'[q] = txn[q]
    PROVE  calm' => (OneSave /\ AboutToBeLive /\ Live)'
<1> SUFFICES ASSUME calm'
             PROVE  (OneSave /\ AboutToBeLive /\ Live)'
  OBVIOUS
<1>1. OneSave /\ AboutToBeLive /\ Live
  BY DEF SInv
<1>2. \A q \in Requests : Committed(q)' <=> Committed(q)
  BY DEF Committed
<1>3. OneSave'
  BY <1>1 DEF OneSave
<1>4. AboutToBeLive'
  BY <1>1, <1>2 DEF AboutToBeLive
<1>5. Live'
  BY <1>1, <1>2 DEF Live
<1> QED
  BY <1>3, <1>4, <1>5

\* What ripples brings no save under way.
LEMMA RippleSaves ==
    ASSUME SettingsType, NEW w \in Workers, Ripple(w)
    PROVE  SaveUnderWay(w)' => SaveUnderWay(w)
<1>1. ASSUME Saving(w)'
      PROVE  Saving(w)
  <2>1. txn'[w] # Idle /\ txn'[w].op \in {"search", "mail", "put"}
    BY <1>1 DEF Saving
  <2>2. txn'[w] \in OpenTxns
    BY <2>1 DEF Ripple, AppliedTxns
  <2>3. IsOpen(w)'
    BY <2>1, <2>2 DEF IsOpen
  <2> QED
    BY <2>1, <2>3 DEF Ripple, Saving, IsOpen
<1>2. Committed(w)' => Committed(w)
  BY DEF Ripple, Committed
<1> QED
  BY <1>1, <1>2 DEF SaveUnderWay

LEMMA RunPersistKeeps ==
    ASSUME SInv, NEW r \in Runs, RunPersist(r)
    PROVE  SInv'
<1>1. SettingsType /\ txn' = Disturbed /\ UNCHANGED <<prefs, profile, scores, channel, live, calm>>
  BY DEF SInv, RunPersist
<1>2. text' \in [Jobs -> Texts \cup {Gone}] /\ touched' \in [Runs -> (SUBSET Jobs) \cup {Idle}]
  BY <1>1 DEF RunPersist, SettingsType
<1>3. \A w \in Workers : Ripple(w) /\ (IsOpen(w)' => ~txn'[w].alone)
  BY <1>1, DisturbedRipples
<1>4. txn' \in [Workers -> OpenTxns \cup AppliedTxns \cup {Idle}]
  <2>1. \A w \in Workers : txn'[w] \in OpenTxns \cup AppliedTxns \cup {Idle}
    BY <1>3 DEF Ripple
  <2> QED
    BY <1>1, <2>1 DEF Disturbed
<1>5. SettingsType'
  BY <1>1, <1>2, <1>4 DEF SettingsType
<1>6. NoneLost
  BY <1>1 DEF NoneLost
<1>7. \A w \in Workers : Modest(w)' /\ Grounded(w)' /\ Fresh(w)'
  BY <1>3, <1>6, RippleKeeps
<1>8. calm' => (OneSave /\ AboutToBeLive /\ Live)'
  <2>1. PrefsOf(Oldest)' = PrefsOf(Oldest)
    BY <1>1 DEF PrefsOf
  <2>2. \A q \in Requests : /\ SaveUnderWay(q)' => SaveUnderWay(q)
                            /\ Committed(q)' => txn'[q] = txn[q]
                            /\ Committed(q) => txn'[q] = txn[q]
    BY <1>1, <1>3, RippleSaves DEF Ripple, Workers
  <2> QED
    BY <1>1, <2>1, <2>2, CalmStays
<1> QED
  BY <1>5, <1>7, <1>8 DEF SInv

-----------------------------------------------------------------------------
(* The end of a transaction, the process and the clock. *)

\* What a commit makes of the tables.
LEMMA CommitTables ==
    ASSUME SInv, NEW w \in Workers, Commit(w)
    PROVE  /\ IsOpen(w)
           /\ SettingsType'
           /\ NoneLost
           /\ \A o \in Workers \ {w} : Ripple(o) /\ (IsOpen(o)' => ~txn'[o].alone)
           /\ txn'[w] = IF Saving(w) THEN Applying(txn[w]) ELSE Idle
           /\ Applying(txn[w]) \in AppliedTxns
<1> DEFINE t == txn[w]
<1>1. SettingsType /\ IsOpen(w) /\ t \in OpenTxns /\ Grounded(w)
  BY OpenOrNot DEF SInv, Commit, IsOpen, Committed
<1>2. /\ \A u \in Users : t.changes[u] \in Changes
      /\ t.user \in Users /\ t.aged \in BOOLEAN /\ t.channel \in Channels \cup {Same}
  BY <1>1 DEF OpenTxns
<1>3. /\ prefs' = [u \in Users |-> Over(prefs[u], t.changes[u].prefs)]
      /\ profile' = [u \in Users |-> Over(profile[u], t.changes[u].profile)]
      /\ scores' = [u \in Users |-> [j \in Jobs |->
              IF j \notin t.changes[u].stamped THEN scores[u][j]
              ELSE [of   |-> IF t.changes[u].scores[j] = Same THEN scores[u][j].of
                             ELSE t.changes[u].scores[j],
                    aged |-> t.aged]]]
      /\ channel' = Over(channel, t.channel)
      /\ txn' = [Disturbed EXCEPT ![w] = IF Saving(w) THEN Applying(t) ELSE Idle]
      /\ touched' = [r \in Runs |-> IF r = w THEN Idle ELSE touched[r]]
      /\ text' = text
  BY DEF Commit, Ends
<1>4. prefs' \in [Users -> Prefs \cup {NoDoc}] /\ profile' \in [Users -> Profiles \cup {NoDoc}]
  <2>1. \A u \in Users : /\ Over(prefs[u], t.changes[u].prefs) \in Prefs \cup {NoDoc}
                         /\ Over(profile[u], t.changes[u].profile) \in Profiles \cup {NoDoc}
    BY <1>1, <1>2 DEF Over, Changes, SettingsType
  <2> QED
    BY <1>3, <2>1
<1>5. ASSUME NEW u \in Users, NEW j \in Jobs
      PROVE  /\ scores'[u][j] \in Stamps \cup {Unscored}
             /\ scores[u][j] # Unscored => scores'[u][j] # Unscored
  <2>1. CASE j \notin t.changes[u].stamped
    BY <1>1, <1>3, <2>1 DEF SettingsType
  <2>2. CASE j \in t.changes[u].stamped
    <3> DEFINE of == IF t.changes[u].scores[j] = Same THEN scores[u][j].of ELSE t.changes[u].scores[j]
    <3>1. scores'[u][j] = [of |-> of, aged |-> t.aged]
      BY <1>3, <2>2
    <3>2. of \in Scores
      <4>1. CASE t.changes[u].scores[j] = Same
        <5>1. scores[u][j] # Unscored
          BY <1>1, <2>2, <4>1 DEF Grounded
        <5>2. scores[u][j] \in Stamps
          BY <1>1, <5>1 DEF SettingsType
        <5> QED
          BY <4>1, <5>2 DEF Stamps
      <4>2. CASE t.changes[u].scores[j] # Same
        BY <1>2, <4>2 DEF Changes
      <4> QED
        BY <4>1, <4>2
    <3> HIDE DEF of
    <3>3. scores'[u][j] \in Stamps
      BY <1>2, <3>1, <3>2 DEF Stamps
    <3> QED
      BY <3>3, AbsentAssumption DEF Stamps
  <2> QED
    BY <2>1, <2>2
<1>6. scores' \in [Users -> [Jobs -> Stamps \cup {Unscored}]]
  <2>1. \A u \in Users : scores'[u] = [j \in Jobs |-> scores'[u][j]]
    BY <1>3
  <2>2. \A u \in Users : scores'[u] \in [Jobs -> Stamps \cup {Unscored}]
    BY <1>5, <2>1
  <2>3. scores' = [u \in Users |-> scores'[u]]
    BY <1>3
  <2> QED
    BY <2>2, <2>3
<1>7. channel' \in Channels
  BY <1>1, <1>2, <1>3 DEF Over, SettingsType
<1>8. Applying(t) \in AppliedTxns
  <2>1. Over(PrefsOf(t.user), t.changes[t.user].prefs) \in Prefs
    BY <1>1, <1>2, DocumentsType DEF Over, Changes
  <2> QED
    BY <2>1 DEF Applying, AppliedTxns, Prefs
<1>9. txn'[w] = IF Saving(w) THEN Applying(t) ELSE Idle
  BY <1>3 DEF Disturbed
<1>10. \A o \in Workers \ {w} : txn'[o] = Disturbed[o]
  BY <1>3 DEF Disturbed
<1>11. \A o \in Workers \ {w} : Ripple(o) /\ (IsOpen(o)' => ~txn'[o].alone)
  BY <1>1, <1>10, DisturbedRipples
<1>12. txn' \in [Workers -> OpenTxns \cup AppliedTxns \cup {Idle}]
  <2>1. \A o \in Workers : txn'[o] \in OpenTxns \cup AppliedTxns \cup {Idle}
    BY <1>8, <1>9, <1>11 DEF Ripple
  <2>2. txn' = [o \in Workers |-> txn'[o]]
    BY <1>3 DEF Disturbed
  <2> QED
    BY <2>1, <2>2
<1>13. touched' \in [Runs -> (SUBSET Jobs) \cup {Idle}]
  BY <1>1, <1>3 DEF SettingsType
<1>14. SettingsType'
  BY <1>1, <1>3, <1>4, <1>6, <1>7, <1>12, <1>13 DEF SettingsType
<1> QED
  BY <1>1, <1>5, <1>8, <1>9, <1>11, <1>14 DEF NoneLost

LEMMA CommitKeeps ==
    ASSUME SInv, NEW w \in Workers, Commit(w)
    PROVE  SInv'
<1> DEFINE t == txn[w]
<1>1. /\ SettingsType /\ IsOpen(w) /\ SettingsType' /\ NoneLost
      /\ \A o \in Workers \ {w} : Ripple(o) /\ (IsOpen(o)' => ~txn'[o].alone)
      /\ txn'[w] = IF Saving(w) THEN Applying(t) ELSE Idle
      /\ Applying(t) \in AppliedTxns
  BY CommitTables DEF SInv
<1>2. \A o \in Workers \ {w} : Modest(o)' /\ Grounded(o)' /\ Fresh(o)'
  BY <1>1, RippleKeeps
<1>3. ~IsOpen(w)'
  BY <1>1 DEF IsOpen, OpenTxns, AppliedTxns, Pages, Plain
<1>4. Modest(w)' /\ Grounded(w)' /\ Fresh(w)'
  BY <1>3 DEF Modest, Grounded, Fresh
<1>5. /\ t \in OpenTxns /\ Oldest \in Users /\ t.changes[Oldest] \in Changes
      /\ prefs'[Oldest] = Over(prefs[Oldest], t.changes[Oldest].prefs)
      /\ ~("prefs" \in t.changes[Oldest].missing /\ prefs[Oldest] # NoDoc)
  BY <1>1, SettingsAssumption DEF IsOpen, OpenTxns, Commit, Conflicts
<1>6. PrefsOf(Oldest)' = Over(PrefsOf(Oldest), t.changes[Oldest].prefs)
  <2>1. PrefsOf(Oldest)' = IF prefs'[Oldest] = NoDoc THEN DefaultPrefs ELSE prefs'[Oldest]
    BY DEF PrefsOf
  <2>2. t.changes[Oldest].prefs # Same => t.changes[Oldest].prefs # NoDoc
    BY <1>5, AbsentAssumption DEF Changes
  <2> QED
    BY <1>5, <2>1, <2>2 DEF PrefsOf, Over
<1>7. live' = live
  BY DEF Commit
<1>8. ASSUME calm', Saving(w)
      PROVE  (OneSave /\ AboutToBeLive /\ Live)'
  <2>1. calm /\ t.user = Oldest /\ OneSave
    BY <1>8 DEF Commit, SInv
  <2>2. w \in Requests
    BY <1>1, <1>8, OpenOrNot DEF SInv, Modest, Workers, Plain
  <2>3. \A o \in Requests : SaveUnderWay(o)' => SaveUnderWay(o)
    BY <1>1, <1>8, RippleSaves DEF SaveUnderWay, Workers
  <2>4. OneSave'
    BY <2>1, <2>3 DEF OneSave
  <2>5. \A o \in Requests : Committed(o)' => o = w
    BY <1>8, <2>1, <2>2, <2>3 DEF OneSave, SaveUnderWay
  <2>6. txn'[w].op = "apply" /\ txn'[w].rules = PrefsOf(Oldest)'.schedule
    BY <1>1, <1>6, <1>8, <2>1 DEF Applying
  <2>7. AboutToBeLive'
    BY <2>5, <2>6 DEF AboutToBeLive
  <2>8. txn'[w] # Idle
    BY <1>1, <1>8, AbsentAssumption DEF Applying, AppliedTxns
  <2>9. Committed(w)'
    BY <2>6, <2>8 DEF Committed
  <2>10. Live'
    BY <2>2, <2>9 DEF Live
  <2> QED
    BY <2>4, <2>7, <2>10
<1>9. CASE ~Saving(w)
  <2>1. t.op \in Plain
    BY <1>1, <1>9, OpenOrNot
  <2>2. t.changes[Oldest].prefs = Same \/ (t.changes[Oldest].prefs = DefaultPrefs /\ prefs[Oldest] = NoDoc)
    BY <1>1, <1>5, <2>1 DEF SInv, Modest, KeepsPrefs
  <2>3. PrefsOf(Oldest)' = PrefsOf(Oldest)
    BY <1>6, <2>2 DEF PrefsOf, Over
  <2>4. calm' => calm
    BY DEF Commit
  <2>5. ~SaveUnderWay(w)' /\ ~Committed(w)' /\ ~Committed(w)
    BY <1>1, <1>9, OpenOrNot DEF SaveUnderWay, Saving, Committed
  <2>6. \A q \in Requests : /\ SaveUnderWay(q)' => SaveUnderWay(q)
                            /\ Committed(q)' => txn'[q] = txn[q]
                            /\ Committed(q) => txn'[q] = txn[q]
    BY <1>1, <2>5, RippleSaves DEF Ripple, Workers
  <2> QED
    BY <1>1, <1>2, <1>4, <1>7, <2>3, <2>4, <2>6, CalmStays DEF SInv
<1> QED
  BY <1>1, <1>2, <1>4, <1>8, <1>9 DEF SInv

\* A transaction is over, without a change to the documents.
LEMMA EndKeeps ==
    ASSUME SInv, NEW W \in SUBSET Workers,
           txn' = [w \in Workers |-> IF w \in W THEN Idle ELSE txn[w]],
           touched' \in [Runs -> (SUBSET Jobs) \cup {Idle}],
           UNCHANGED <<docs, scores, channel>>
    PROVE  /\ SettingsType'
           /\ \A w \in Workers : Modest(w)' /\ Grounded(w)' /\ Fresh(w)'
           /\ \A w \in Workers : /\ SaveUnderWay(w)' => SaveUnderWay(w) /\ w \notin W
                                 /\ Committed(w)' => txn'[w] = txn[w]
                                 /\ Committed(w) /\ w \notin W => txn'[w] = txn[w]
           /\ PrefsOf(Oldest)' = PrefsOf(Oldest)
<1>1. SettingsType
  BY DEF SInv
<1>2. SettingsType'
  BY <1>1 DEF SettingsType, docs
<1>3. Standing /\ NoneLost
  BY DEF Standing, NoneLost
<1>4. ASSUME NEW w \in Workers
      PROVE  /\ Modest(w)' /\ Grounded(w)' /\ Fresh(w)'
             /\ SaveUnderWay(w)' => SaveUnderWay(w) /\ w \notin W
             /\ Committed(w)' => txn'[w] = txn[w]
             /\ Committed(w) /\ w \notin W => txn'[w] = txn[w]
  <2>1. CASE w \in W
    BY <2>1 DEF Modest, Grounded, Fresh, IsOpen, SaveUnderWay, Saving, Committed
  <2>2. CASE w \notin W
    <3>1. txn'[w] = txn[w]
      BY <2>2
    <3>2. Ripple(w)
      BY <1>1, <3>1, UntouchedRipples
    <3> QED
      BY <1>1, <1>3, <2>2, <3>1, <3>2, RippleKeeps, RippleSaves
  <2> QED
    BY <2>1, <2>2
<1> QED
  BY <1>2, <1>4 DEF PrefsOf, docs

LEMMA FailKeeps ==
    ASSUME SInv, NEW w \in Workers, Fail(w)
    PROVE  SInv'
<1>1. txn' = [o \in Workers |-> IF o \in {w} THEN Idle ELSE txn[o]]
  BY DEF Fail, SInv, SettingsType
<1>2. touched' \in [Runs -> (SUBSET Jobs) \cup {Idle}] /\ UNCHANGED <<docs, scores, channel, live, calm>>
  BY DEF Fail, Ends, SInv, SettingsType
<1>3. ~Committed(w)
  BY DEF Fail, Committed
<1>4. /\ SettingsType'
      /\ \A o \in Workers : Modest(o)' /\ Grounded(o)' /\ Fresh(o)'
      /\ \A o \in Workers : /\ SaveUnderWay(o)' => SaveUnderWay(o)
                            /\ Committed(o)' => txn'[o] = txn[o]
                            /\ Committed(o) /\ o # w => txn'[o] = txn[o]
      /\ PrefsOf(Oldest)' = PrefsOf(Oldest)
  BY <1>1, <1>2, EndKeeps
<1>5. calm' => (OneSave /\ AboutToBeLive /\ Live)'
  BY <1>2, <1>3, <1>4, CalmStays DEF Workers
<1> QED
  BY <1>4, <1>5 DEF SInv

LEMMA RunQuietlyKeeps ==
    ASSUME SInv, NEW r \in Runs, RunQuietly(r)
    PROVE  SInv'
<1>1. txn' = [o \in Workers |-> IF o \in {} THEN Idle ELSE txn[o]]
  BY DEF RunQuietly, SInv, SettingsType
<1>2. touched' \in [Runs -> (SUBSET Jobs) \cup {Idle}] /\ UNCHANGED <<docs, scores, channel, live, calm>>
  BY DEF RunQuietly, SInv, SettingsType
<1>3. /\ SettingsType'
      /\ \A o \in Workers : Modest(o)' /\ Grounded(o)' /\ Fresh(o)'
      /\ \A o \in Workers : /\ SaveUnderWay(o)' => SaveUnderWay(o)
                            /\ Committed(o)' => txn'[o] = txn[o]
                            /\ Committed(o) => txn'[o] = txn[o]
      /\ PrefsOf(Oldest)' = PrefsOf(Oldest)
  <2> DEFINE none == {}
  <2>1. none \in SUBSET Workers /\ \A o \in Workers : o \notin none
    OBVIOUS
  <2>2. txn' = [o \in Workers |-> IF o \in none THEN Idle ELSE txn[o]]
    BY <1>1
  <2> HIDE DEF none
  <2> QED
    BY <1>2, <2>1, <2>2, EndKeeps
<1>4. calm' => (OneSave /\ AboutToBeLive /\ Live)'
  BY <1>2, <1>3, CalmStays DEF Workers
<1> QED
  BY <1>3, <1>4 DEF SInv

LEMMA RestartKeeps ==
    ASSUME SInv, Restart
    PROVE  SInv'
<1>1. txn' = [o \in Workers |-> IF o \in Requests THEN Idle ELSE txn[o]]
  BY DEF Restart
<1>2. Requests \in SUBSET Workers /\ UNCHANGED <<docs, scores, channel, touched>>
  BY DEF Restart, Workers
<1>3. touched' \in [Runs -> (SUBSET Jobs) \cup {Idle}]
  BY <1>2 DEF SInv, SettingsType
<1>4. /\ SettingsType'
      /\ \A o \in Workers : Modest(o)' /\ Grounded(o)' /\ Fresh(o)'
      /\ \A q \in Requests : ~SaveUnderWay(q)'
      /\ PrefsOf(Oldest)' = PrefsOf(Oldest)
  BY <1>1, <1>2, <1>3, EndKeeps DEF Workers
<1>5. \A q \in Requests : ~Committed(q)'
  BY <1>4 DEF SaveUnderWay
<1>6. OneSave' /\ AboutToBeLive'
  BY <1>4, <1>5 DEF OneSave, AboutToBeLive
<1>7. calm' => Live'
  <2>1. calm' => live' = Rescheduled({}, PrefsOf(Oldest).schedule)
    BY DEF Restart
  <2> QED
    BY <1>4, <2>1 DEF Live
<1> QED
  BY <1>4, <1>6, <1>7 DEF SInv

LEMMA ApplyScheduleKeeps ==
    ASSUME SInv, NEW q \in Requests, ApplySchedule(q)
    PROVE  SInv'
<1>1. txn' = [o \in Workers |-> IF o \in {q} THEN Idle ELSE txn[o]]
  BY DEF ApplySchedule, SInv, SettingsType
<1>2. {q} \in SUBSET Workers /\ UNCHANGED <<docs, scores, channel, touched, calm>>
  BY DEF ApplySchedule, Workers
<1>3. touched' \in [Runs -> (SUBSET Jobs) \cup {Idle}]
  BY <1>2 DEF SInv, SettingsType
<1>4. /\ SettingsType'
      /\ \A o \in Workers : Modest(o)' /\ Grounded(o)' /\ Fresh(o)'
      /\ \A o \in Requests : SaveUnderWay(o)' => SaveUnderWay(o) /\ o # q
      /\ PrefsOf(Oldest)' = PrefsOf(Oldest)
  BY <1>1, <1>2, <1>3, EndKeeps DEF Workers
<1>5. ASSUME calm'
      PROVE  (OneSave /\ AboutToBeLive /\ Live)'
  <2>1. OneSave /\ AboutToBeLive /\ SaveUnderWay(q) /\ Committed(q)
    BY <1>2, <1>5 DEF SInv, ApplySchedule, SaveUnderWay
  <2>2. \A o \in Requests : ~SaveUnderWay(o)'
    BY <1>4, <2>1 DEF OneSave
  <2>3. \A o \in Requests : ~Committed(o)'
    BY <2>2 DEF SaveUnderWay
  <2>4. live' = Rescheduled(live, PrefsOf(Oldest).schedule)
    BY <2>1 DEF ApplySchedule, AboutToBeLive
  <2> QED
    BY <1>4, <2>2, <2>3, <2>4 DEF OneSave, AboutToBeLive, Live, Rescheduled
<1> QED
  BY <1>4, <1>5 DEF SInv

LEMMA DayPassesKeeps ==
    ASSUME SInv, DayPasses
    PROVE  SInv'
<1>1. SettingsType /\ UNCHANGED <<docs, channel, live, touched, calm>>
  BY DEF SInv, DayPasses
<1>2. \A w \in Workers : Ripple(w)
  BY <1>1, AgedRipples DEF DayPasses
<1>3. txn' \in [Workers -> OpenTxns \cup AppliedTxns \cup {Idle}]
  BY <1>2 DEF DayPasses, Ripple
<1>4. \A u \in Users, j \in Jobs :
        scores'[u][j] = IF scores[u][j] = Unscored THEN Unscored ELSE [scores[u][j] EXCEPT !.aged = TRUE]
  BY DEF DayPasses
<1>5. \A u \in Users, j \in Jobs :
        /\ scores[u][j] = Unscored => scores'[u][j] = Unscored
        /\ scores[u][j] # Unscored => scores'[u][j] \in Stamps /\ scores'[u][j].of = scores[u][j].of
  <2> SUFFICES ASSUME NEW u \in Users, NEW j \in Jobs, scores[u][j] # Unscored
               PROVE  scores'[u][j] \in Stamps /\ scores'[u][j].of = scores[u][j].of
    BY <1>4
  <2>1. scores'[u][j] = [scores[u][j] EXCEPT !.aged = TRUE]
    BY <1>4
  <2>2. scores[u][j] \in Stamps
    BY <1>1 DEF SettingsType
  <2> QED
    BY <2>1, <2>2 DEF Stamps
<1>6. scores' \in [Users -> [Jobs -> Stamps \cup {Unscored}]]
  BY <1>5 DEF DayPasses
<1>7. SettingsType'
  BY <1>1, <1>3, <1>6 DEF SettingsType, docs
<1>8. NoneLost /\ Standing
  BY <1>1, <1>5, AbsentAssumption DEF NoneLost, Standing, Stamps
<1>9. \A w \in Workers : Modest(w)' /\ Grounded(w)' /\ Fresh(w)'
  BY <1>2, <1>8, RippleKeeps
<1>10. calm' => (OneSave /\ AboutToBeLive /\ Live)'
  <2>1. PrefsOf(Oldest)' = PrefsOf(Oldest)
    BY <1>1 DEF PrefsOf, docs
  <2>2. \A q \in Requests : /\ SaveUnderWay(q)' => SaveUnderWay(q)
                            /\ Committed(q)' => txn'[q] = txn[q]
                            /\ Committed(q) => txn'[q] = txn[q]
    BY <1>1, <1>2, RippleSaves DEF Ripple, Workers
  <2> QED
    BY <1>1, <2>1, <2>2, CalmStays
<1> QED
  BY <1>7, <1>9, <1>10 DEF SInv

LEMMA SettingsStutterKeeps ==
    ASSUME SInv, UNCHANGED settingsVars
    PROVE  SInv'
  BY DEF SInv, settingsVars, docs, SettingsType, Modest, KeepsPrefs, Grounded, Fresh, Consistent,
         Scored, Active, IsOpen, OneSave, AboutToBeLive, Live, SaveUnderWay, Saving, Committed, PrefsOf

LEMMA SettingsStepKeeps == SInv /\ [SettingsNext]_settingsVars => SInv'
  BY SubmitKeeps, ApplyScheduleKeeps, RunPersistKeeps, RunScoreKeeps, RunQuietlyKeeps, CommitKeeps,
     FailKeeps, RestartKeeps, DayPassesKeeps, SettingsStutterKeeps DEF SettingsNext

\* What the theorems below rest on.
THEOREM SettingsInvariant == SettingsSpec => []SInv
  BY SettingsInit_SInv, SettingsStepKeeps, PTL DEF SettingsSpec

\* The digests the scheduler has jobs for are those of the preferences last saved,
\* through any interleaving of requests, commands, runs, failures and restarts,
\* unless saves overlapped or another account saved.
THEOREM LiveAlwaysMatchesSaved == SettingsSpec => []LiveMatchesSaved
<1>1. SInv => LiveMatchesSaved
  BY DEF SInv, Live, LiveMatchesSaved
<1> QED
  BY <1>1, SettingsInvariant, PTL

-----------------------------------------------------------------------------
(* A page that is saved on its own. *)

\* Only its commit makes an open page one that is to be applied.
LEMMA OnlyCommitSaves ==
    ASSUME SInv, [SettingsNext]_settingsVars, NEW q \in Requests, NEW page \in Pages, Saves(q, page)
    PROVE  Commit(q)
<1>1. /\ SettingsType /\ q \in Workers
      /\ txn[q] # Idle /\ txn[q].op = page /\ txn'[q] # Idle /\ txn'[q].op = "apply" /\ page # "apply"
  BY DEF SInv, Saves, Workers, Pages
<1>2. ~Ripple(q) /\ txn'[q] # txn[q]
  BY <1>1 DEF Ripple, Committed
<1>3. ASSUME NEW w \in Workers, NEW op, NEW u, NEW changes, NEW c, Open(w, op, u, changes, c)
      PROVE  FALSE
  BY <1>1, <1>2, <1>3 DEF Open, SettingsType
<1>4. CASE \E o \in Requests : Submit(o)
  <2>1. PICK o \in Requests : Submit(o)
    BY <1>4
  <2>2. o \in Workers
    BY DEF Workers
  <2> QED
    BY <2>1, <2>2, <1>3 DEF Submit, SaveSearchPage, SaveMailPage, SaveProfilePage,
       PutPreferences, PutProfile, RescoreAll
<1>5. CASE \E o \in Requests : ApplySchedule(o)
  BY <1>1, <1>2, <1>5 DEF ApplySchedule, SettingsType
<1>6. CASE \E r \in Runs : RunPersist(r)
  BY <1>1, <1>2, <1>6, DisturbedRipples DEF RunPersist
<1>7. CASE \E r \in Runs : RunScore(r)
  BY <1>3, <1>7 DEF RunScore, Workers
<1>8. CASE \E r \in Runs : RunQuietly(r)
  BY <1>2, <1>8 DEF RunQuietly
<1>9. ASSUME NEW w \in Workers, Commit(w)
      PROVE  w = q
  BY <1>1, <1>2, <1>9, CommitTables
<1>10. CASE \E w \in Workers : Fail(w)
  BY <1>1, <1>2, <1>10 DEF Fail, SettingsType
<1>11. CASE Restart
  BY <1>1, <1>11 DEF Restart
<1>12. CASE DayPasses
  BY <1>1, <1>2, <1>12, AgedRipples DEF DayPasses
<1>13. CASE UNCHANGED settingsVars
  BY <1>2, <1>13 DEF settingsVars
<1> QED
  BY <1>4, <1>5, <1>6, <1>7, <1>8, <1>9, <1>10, <1>11, <1>12, <1>13 DEF SettingsNext

\* Its answers are in the score of every active job.
LEMMA SavedPage ==
    ASSUME SInv, [SettingsNext]_settingsVars, NEW q \in Requests, NEW page \in Pages,
           Saves(q, page), txn[q].alone
    PROVE  LET u == txn[q].user IN
           \A j \in Active : scores'[u][j].of = [keywords |-> prefs'[u].keywords, sponsor |-> prefs'[u].sponsor,
                                                skills |-> profile'[u].skills, text |-> text[j]]
<1> DEFINE u == txn[q].user
           c == txn[q].changes[u]
<1>1. Commit(q) /\ q \in Workers
  BY OnlyCommitSaves DEF Workers
<1>2. IsOpen(q) /\ txn[q] \in OpenTxns /\ SettingsType
  BY <1>1, CommitTables DEF IsOpen, SInv
<1>3. u \in Users /\ c \in Changes
  BY <1>2 DEF OpenTxns
<1>4. Consistent(c, u)
  BY <1>1, <1>2 DEF SInv, Fresh, Saves
<1>5. PICK p \in Prefs, f \in Profiles :
        /\ f.sponsor = p.sponsor
        /\ c.prefs = Written(prefs[u], p) /\ c.profile = Written(profile[u], f)
        /\ c.stamped = Active
        /\ \A j \in Active : Scored(c, u, j, p, f)
  BY <1>4 DEF Consistent
<1>6. /\ prefs'[u] = Over(prefs[u], c.prefs) /\ profile'[u] = Over(profile[u], c.profile)
      /\ \A j \in Jobs : scores'[u][j] =
              IF j \notin c.stamped THEN scores[u][j]
              ELSE [of |-> IF c.scores[j] = Same THEN scores[u][j].of ELSE c.scores[j], aged |-> txn[q].aged]
  BY <1>1, <1>3 DEF Commit
<1>7. prefs'[u] = p /\ profile'[u] = f
  BY <1>5, <1>6, AbsentAssumption DEF Written, Over
<1> HIDE DEF u, c
<1>8. ASSUME NEW j \in Active
      PROVE  scores'[u][j].of = ScoreWith(p, f, text[j])
  <2>1. j \in Jobs /\ text[j] \in Texts \cup {Gone}
    BY <1>2 DEF Active, SettingsType
  <2>2. ScoreWith(p, f, text[j]) # Same
    BY <2>1, ScoreWithType, AbsentAssumption
  <2>3. scores'[u][j].of = IF c.scores[j] = Same THEN scores[u][j].of ELSE c.scores[j]
    <3>1. j \in c.stamped
      BY <1>5
    <3>2. scores'[u][j] = [of |-> IF c.scores[j] = Same THEN scores[u][j].of ELSE c.scores[j],
                           aged |-> txn[q].aged]
      BY <1>6, <2>1, <3>1
    <3> QED
      BY <3>2
  <2> QED
    BY <1>5, <2>2, <2>3 DEF Scored
<1>9. \A j \in Active : ScoreWith(p, f, text[j]) =
        [keywords |-> p.keywords, sponsor |-> p.sponsor, skills |-> f.skills, text |-> text[j]]
  <2>1. p.sponsor \in BOOLEAN
    BY DEF Prefs
  <2>2. NeedsSponsorship(p, f) = p.sponsor
    BY <1>5, <2>1 DEF NeedsSponsorship
  <2> QED
    BY <2>2 DEF ScoreWith
<1> QED
  BY <1>7, <1>8, <1>9 DEF u

\* A page saved while nothing else commits leaves every active job scored with the
\* answers on it, whatever the documents, the jobs and the scores were before.
THEOREM SavesAlwaysReachTheFeed == SettingsSpec => SavesReachTheFeed
<1>1. SInv /\ [SettingsNext]_settingsVars =>
        [\A q \in Requests : (Saves(q, "search") \/ Saves(q, "mail")) /\ txn[q].alone
         => LET u == txn[q].user IN
            \A j \in Active : scores'[u][j].of = [keywords |-> prefs'[u].keywords, sponsor |-> prefs'[u].sponsor,
                                                 skills |-> profile'[u].skills, text |-> text[j]]]_settingsVars
  BY SavedPage DEF Pages
<1> QED
  BY <1>1, SettingsInvariant, PTL DEF SettingsSpec, SavesReachTheFeed
=============================================================================
