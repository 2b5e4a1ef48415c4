--------------------------- MODULE GroupPagesProofs ---------------------------
(***************************************************************************)
(* The properties of the group's pages for every number of groups, rows,   *)
(* accounts and calls that overlap, and for all tables the calls may begin *)
(* on.  The invariant has a part for every kind of row, which says what    *)
(* the rows and the calls in progress that are going to write them hold;   *)
(* a step of a service disturbs only the parts of the rows it writes.      *)
(***************************************************************************)
EXTENDS GroupPages, FiniteSetTheorems, WellFoundedInduction, TLAPS

-----------------------------------------------------------------------------
(* What a step of a call leaves alone: the other calls, but for the mark   *)
(* that what they have read is out of date; the call itself goes to a step *)
(* of its service.                                                         *)
Same(q) == pc'[q] = pc[q] /\ call'[q] = call[q]

Moved(r, S) ==
  /\ DOMAIN pc' = Requests /\ DOMAIN call' = Requests
  /\ pc'[r] \in S
  /\ \A q \in Requests \ {r} :
       /\ pc'[q] = pc[q]
       /\ \/ call'[q] = call[q]
          \/ pc[q] \in Drafting /\ call'[q] = [call[q] EXCEPT !.old = TRUE]

CallsOK ==
  /\ DOMAIN pc = Requests /\ DOMAIN call = Requests
  /\ \A r \in Requests : pc[r] = "recalc" => call[r].then \in {"idle", "notify"}

GroupSteps == {"idle", "config", "capRead", "capSave", "capWrite", "notify", "join"}
RankSteps == {"idle", "recalc", "rankSave", "rankDelete", "notify", "badgeSave", "badgeDelete",
              "revoke", "revokeWrite", "toggle", "award", "awardWrite"}
StageSteps == {"idle", "notify", "stageSave", "stageDelete", "activityNew", "activitySave",
               "activityDelete"}
PostSteps == {"idle", "postTell", "postSave", "postJob"}
TemplateSteps == {"idle", "notify", "offerNew", "offerSave", "export", "templateSave", "clone",
                  "favorite"}

LEMMA BeginMoves ==
  ASSUME CallsOK, NEW r \in Requests, NEW S, NEW step \in S, NEW c, Begin(r, step, c)
  PROVE  /\ Moved(r, S) /\ pc'[r] = step /\ call'[r] = c /\ pc[r] = "idle"
         /\ \A q \in Requests \ {r} : Same(q)
  BY DEF CallsOK, Begin, Moved, Same

LEMMA GotoMoves ==
  ASSUME CallsOK, NEW r \in Requests, NEW S, NEW step \in S, NEW c, Goto(r, step, c)
  PROVE  /\ Moved(r, S) /\ pc'[r] = step /\ call'[r] = c
         /\ \A q \in Requests \ {r} : Same(q)
  BY DEF CallsOK, Goto, Moved, Same

LEMMA DoneMoves ==
  ASSUME CallsOK, NEW r \in Requests, NEW S, "idle" \in S, Done(r)
  PROVE  Moved(r, S) /\ pc'[r] = "idle" /\ \A q \in Requests \ {r} : Same(q)
  BY GotoMoves DEF Done

LEMMA AtOnceMoves ==
  ASSUME CallsOK, NEW r \in Requests, NEW S, "idle" \in S, AtOnce(r)
  PROVE  Moved(r, S) /\ pc'[r] = "idle" /\ \A q \in Requests : Same(q)
  BY DEF CallsOK, AtOnce, Moved, Same

LEMMA OutdatedMoves ==
  ASSUME CallsOK, NEW r \in Requests, NEW S, NEW step \in S, NEW g, NEW c,
         Outdated(r, g, step, c)
  PROVE  /\ Moved(r, S) /\ pc'[r] = step /\ call'[r] = c
         /\ \A q \in Requests \ {r} :
              call'[q] = IF pc[q] \in Drafting /\ call[q].group = g
                            /\ DOMAIN call[q].rows \cap Students # {}
                         THEN [call[q] EXCEPT !.old = TRUE] ELSE call[q]
  BY DEF CallsOK, Outdated, Outdating, Moved

(* The mark of a call that writes is on calls that are about to write.     *)
LEMMA OvertakingMoves ==
  ASSUME CallsOK, NEW r \in Requests, NEW S, NEW step \in S, NEW c, Overtaking(r, step, c)
  PROVE  /\ Moved(r, S) /\ pc'[r] = step /\ call'[r] = c
         /\ \A q \in Requests \ {r} : pc[q] \notin Writing => Same(q)
  BY DEF CallsOK, Overtaking, Outdating, Moved, Same, Drafting

LEMMA CallIs ==
  ASSUME CallsOK, NEW r \in Requests
  PROVE  /\ \A step, c : Begin(r, step, c) =>
              pc[r] = "idle" /\ pc'[r] = step /\ call'[r] = c /\ \A q \in Requests \ {r} : Same(q)
         /\ \A step, c : Goto(r, step, c) =>
              pc'[r] = step /\ call'[r] = c /\ \A q \in Requests \ {r} : Same(q)
         /\ Done(r) => pc'[r] = "idle" /\ \A q \in Requests \ {r} : Same(q)
         /\ AtOnce(r) => pc[r] = "idle" /\ \A q \in Requests : Same(q)
  BY DEF CallsOK, Begin, Goto, Done, AtOnce, Same

LEMMA OutdatedIs ==
  ASSUME CallsOK, NEW r \in Requests, NEW g, NEW step, NEW c, Outdated(r, g, step, c)
  PROVE  /\ pc'[r] = step /\ call'[r] = c
         /\ \A q \in Requests \ {r} :
              /\ pc'[q] = pc[q]
              /\ call'[q] = IF pc[q] \in Drafting /\ call[q].group = g
                               /\ DOMAIN call[q].rows \cap Students # {}
                            THEN [call[q] EXCEPT !.old = TRUE] ELSE call[q]
  BY DEF CallsOK, Outdated, Outdating

LEMMA OvertakingIs ==
  ASSUME CallsOK, NEW r \in Requests, NEW step, NEW c, Overtaking(r, step, c)
  PROVE  /\ pc'[r] = step /\ call'[r] = c
         /\ \A q \in Requests \ {r} :
              /\ pc'[q] = pc[q]
              /\ call'[q] = IF pc[q] \in Writing /\ call[q].group = call[r].group
                               /\ DOMAIN call[q].rows \cap DOMAIN call[r].rows # {}
                            THEN [call[q] EXCEPT !.old = TRUE] ELSE call[q]
  BY DEF CallsOK, Overtaking, Outdating

LEMMA GroupMoves ==
  ASSUME CallsOK, NEW r \in Requests, GroupStep(r)
  PROVE  Moved(r, GroupSteps) /\ \A q \in Requests \ {r} : pc[q] \notin Writing => Same(q)
<1> USE DEF GroupSteps
<1>1. CASE CreateGroup(r)
  BY <1>1, AtOnceMoves DEF CreateGroup
<1>2. CASE ConfigRead(r)
  BY <1>2, BeginMoves DEF ConfigRead
<1>3. CASE ConfigWrite(r)
  BY <1>3, GotoMoves, DoneMoves DEF ConfigWrite
<1>4. CASE CapRead(r)
  BY <1>4, GotoMoves, DoneMoves DEF CapRead
<1>5. CASE CapCompare(r) \/ CapWrite(r)
  BY <1>5, GotoMoves, DoneMoves, OvertakingMoves DEF CapCompare, Compare, CapWrite
<1>6. CASE JoinRead(r)
  BY <1>6, BeginMoves DEF JoinRead
<1>7. CASE JoinWrite(r) \/ Notify(r)
  BY <1>7, DoneMoves DEF JoinWrite, Notify
<1>8. QED
  BY <1>1, <1>2, <1>3, <1>4, <1>5, <1>6, <1>7 DEF GroupStep

LEMMA RankMoves ==
  ASSUME CallsOK, NEW r \in Requests, RankStep(r)
  PROVE  /\ Moved(r, RankSteps)
         /\ pc'[r] = "recalc" => call'[r].then \in {"idle", "notify"}
<1> USE DEF RankSteps
<1>1. CASE CreateRank(r)
  <2>1. PICK g : Outdated(r, g, "recalc", [group |-> g, then |-> "notify"])
    BY <1>1 DEF CreateRank
  <2>2. QED  BY <2>1, OutdatedMoves
<1>2. CASE UpdateRankRead(r) \/ DeleteRankRead(r)
  <2>1. PICK step, c : Begin(r, step, c) /\ step \in {"rankSave", "rankDelete"}
    BY <1>2 DEF UpdateRankRead, DeleteRankRead
  <2>2. QED  BY <2>1, BeginMoves
<1>3. CASE UpdateRankSave(r)
  BY <1>3, OutdatedMoves DEF UpdateRankSave, AfterRankSave
<1>4. CASE DeleteRank(r)
  <2>1. Outdated(r, call[r].group, "recalc", [group |-> call[r].group, then |-> "idle"])
    BY <1>4 DEF DeleteRank
  <2>2. QED  BY <2>1, OutdatedMoves
<1>5. CASE Recalculate(r)
  <2>1. call[r].then \in {"idle", "notify"}
    BY <1>5 DEF Recalculate, CallsOK
  <2>2. PICK c : Outdated(r, call[r].group, call[r].then, c)
    BY <1>5 DEF Recalculate
  <2>3. QED  BY <2>1, <2>2, OutdatedMoves
<1>6. CASE CreateBadge(r)
  BY <1>6, BeginMoves DEF CreateBadge
<1>7. CASE UpdateBadgeRead(r) \/ DeleteBadgeRead(r) \/ ToggleBadge(r)
  <2>1. PICK step, c : Begin(r, step, c) /\ step \in {"badgeSave", "badgeDelete", "toggle"}
    BY <1>7 DEF UpdateBadgeRead, DeleteBadgeRead, ToggleBadge
  <2>2. QED  BY <2>1, BeginMoves
<1>8. CASE RevokeRead(r) \/ RevokeCompare(r) \/ AwardRead(r) \/ AwardCompare(r)
  <2>1. PICK step, c : Goto(r, step, c) /\ step \in {"revoke", "revokeWrite", "award", "awardWrite"}
    BY <1>8 DEF RevokeRead, RevokeCompare, AwardRead, AwardCompare, Compare
  <2>2. QED  BY <2>1, GotoMoves
<1>9. CASE UpdateBadge(r)
  BY <1>9, DoneMoves DEF UpdateBadge
<1>10. CASE DeleteBadge(r) \/ AwardWrite(r)
  BY <1>10, DoneMoves, OvertakingMoves DEF DeleteBadge, AwardWrite
<1>11. QED
  BY <1>1, <1>2, <1>3, <1>4, <1>5, <1>6, <1>7, <1>8, <1>9, <1>10 DEF RankStep

LEMMA StageMoves ==
  ASSUME CallsOK, NEW r \in Requests, StageStep(r)
  PROVE  Moved(r, StageSteps) /\ \A q \in Requests \ {r} : Same(q)
<1> USE DEF StageSteps
<1>1. CASE CreateStage(r) \/ RemoveStageFind(r) \/ CreateActivityCheck(r) \/ RemoveCompletions(r)
  BY <1>1, BeginMoves DEF CreateStage, RemoveStageFind, CreateActivityCheck, RemoveCompletions
<1>2. CASE ModifyStageRead(r)
  BY <1>2, BeginMoves DEF ModifyStageRead
<1>3. CASE ModifyActivityRead(r)
  BY <1>3, BeginMoves DEF ModifyActivityRead
<1>4. CASE ModifyStageSave(r) \/ RemoveStage(r)
  BY <1>4, DoneMoves DEF ModifyStageSave, RemoveStage
<1>5. CASE CreateActivity(r) \/ ModifyActivitySave(r) \/ RemoveActivity(r)
  BY <1>5, DoneMoves DEF CreateActivity, ModifyActivitySave, RemoveActivity
<1>6. CASE ReorderStages(r)
  BY <1>6, AtOnceMoves DEF ReorderStages
<1>7. CASE Complete(r)
  BY <1>7, AtOnceMoves DEF Complete
<1>8. QED
  BY <1>1, <1>2, <1>3, <1>4, <1>5, <1>6, <1>7 DEF StageStep

LEMMA PostMoves ==
  ASSUME CallsOK, NEW r \in Requests, PostStep(r)
  PROVE  Moved(r, PostSteps) /\ \A q \in Requests \ {r} : Same(q)
<1> USE DEF PostSteps
<1>1. CASE CreatePost(r)
  BY <1>1, BeginMoves, AtOnceMoves DEF CreatePost
<1>2. CASE UpdatePostRead(r)
  BY <1>2, BeginMoves DEF UpdatePostRead
<1>3. CASE UpdatePost(r)
  BY <1>3, GotoMoves, DoneMoves DEF UpdatePost
<1>4. CASE DeletePost(r)
  BY <1>4, AtOnceMoves DEF DeletePost
<1>5. CASE PostJobFind(r)
  BY <1>5, BeginMoves DEF PostJobFind
<1>6. CASE PostJobPublish(r)
  BY <1>6, GotoMoves, DoneMoves DEF PostJobPublish
<1>7. CASE Tell(r)
  BY <1>7, GotoMoves, DoneMoves DEF Tell
<1>8. QED
  BY <1>1, <1>2, <1>3, <1>4, <1>5, <1>6, <1>7 DEF PostStep

LEMMA BacklogMoves ==
  ASSUME CallsOK, NEW r \in Requests, BacklogStep(r)
  PROVE  /\ Moved(r, {"idle"}) /\ \A q \in Requests : Same(q)
         /\ UNCHANGED <<groups, ranks, members, raced>>
  BY AtOnceMoves DEF BacklogStep, MarkAsRead, MarkAllAsRead, ClearBacklog, UseItem

LEMMA TemplateMoves ==
  ASSUME CallsOK, NEW r \in Requests, TemplateStep(r)
  PROVE  Moved(r, TemplateSteps) /\ \A q \in Requests \ {r} : Same(q)
<1> USE DEF TemplateSteps
<1>1. CASE OfferCheck(r)
  BY <1>1, BeginMoves DEF OfferCheck
<1>2. CASE OfferSave(r)
  BY <1>2, GotoMoves, DoneMoves DEF OfferSave
<1>3. CASE ExportRead(r)
  BY <1>3, BeginMoves DEF ExportRead
<1>4. CASE ExportSave(r)
  BY <1>4, DoneMoves DEF ExportSave
<1>5. CASE Import(r)
  BY <1>5, AtOnceMoves DEF Import
<1>6. CASE TemplateRead(r)
  BY <1>6, BeginMoves DEF TemplateRead
<1>7. CASE TemplateSave(r) \/ FavoriteSave(r)
  BY <1>7, DoneMoves DEF TemplateSave, FavoriteSave
<1>8. CASE FavoriteCheck(r)
  BY <1>8, BeginMoves DEF FavoriteCheck
<1>9. CASE DeleteOffer(r) \/ DeleteTemplate(r) \/ Unfavorite(r)
  BY <1>9, AtOnceMoves DEF DeleteOffer, DeleteTemplate, Unfavorite
<1>10. QED
  BY <1>1, <1>2, <1>3, <1>4, <1>5, <1>6, <1>7, <1>8, <1>9 DEF TemplateStep

LEMMA FailMoves ==
  ASSUME CallsOK, NEW r \in Requests, Fail(r)
  PROVE  Moved(r, {"idle"}) /\ \A q \in Requests \ {r} : Same(q)
  BY DoneMoves DEF Fail

(* A set of numbers that are bounded has a greatest one.                   *)
LEMMA BoundedMax ==
  ASSUME NEW n \in Nat, NEW V \in SUBSET (0..n), V # {}
  PROVE  \E m \in V : \A j \in V : j <= m
<1> DEFINE D == {n - v : v \in V}
           R == OpToRel(<, Nat)
<1>1. D \in SUBSET Nat /\ D # {}
  <2>1. \A v \in V : v \in 0..n
    OBVIOUS
  <2>2. \A v \in V : n - v \in Nat
    BY <2>1
  <2>3. QED  BY <2>2
<1>2. IsWellFoundedOn(R, Nat)
  BY NatLessThanWellFounded
<1>3. PICK x \in D : \A y \in D : ~ (<<y, x>> \in R)
  <2> HIDE DEF R, D
  <2>1. QED  BY <1>1, <1>2, WFMin
<1>4. \A y \in D : ~(y < x)
  BY <1>1, <1>3 DEF OpToRel
<1>5. PICK m \in V : x = n - m
  BY <1>3
<1>6. \A j \in V : j \in Int /\ n - j \in D
  OBVIOUS
<1>7. \A j \in V : ~(n - j < n - m)
  BY <1>4, <1>5, <1>6
<1>8. \A j \in V : j <= m
  <2> HIDE DEF D
  <2>1. QED  BY <1>5, <1>6, <1>7
<1>9. QED  BY <1>8

LEMMA CallsStay ==
  ASSUME CallsOK, [Next]_pageVars
  PROVE  CallsOK'
<1>1. ASSUME NEW r \in Requests, NEW S, Moved(r, S),
             pc'[r] = "recalc" => call'[r].then \in {"idle", "notify"}
      PROVE  CallsOK'
  BY <1>1 DEF CallsOK, Moved, Drafting, Writing
<1>2. ASSUME NEW r \in Requests, CallStep(r)
      PROVE  CallsOK'
  <2>1. CASE RankStep(r)
    BY <1>1, <2>1, RankMoves
  <2>2. CASE GroupStep(r) \/ StageStep(r) \/ PostStep(r) \/ BacklogStep(r) \/ TemplateStep(r)
             \/ Fail(r)
    <3>1. PICK S : Moved(r, S) /\ "recalc" \notin S
      BY <2>2, GroupMoves, StageMoves, PostMoves, BacklogMoves, TemplateMoves, FailMoves
         DEF GroupSteps, StageSteps, PostSteps, TemplateSteps
    <3>2. pc'[r] # "recalc"
      BY <3>1 DEF Moved
    <3>3. QED  BY <1>1, <3>1, <3>2
  <2>3. QED
    BY <1>2, <2>1, <2>2 DEF CallStep
<1>3. CASE UNCHANGED <<pc, call>>
  BY <1>3 DEF CallsOK
<1>4. QED
  BY <1>2, <1>3 DEF Next, TimePasses, calls, pageVars

(* The accounts the rules of access name are accounts there are.           *)
LEMMA AccountOf ==
  ASSUME NEW c
  PROVE  /\ ScopedId(c, "lecturer") \in {a.id : a \in Accounts} \cup {NoRow}
         /\ LecturerId(c) \in {a.id : a \in Accounts} \cup {NoRow}
         /\ ScopedId(c, "student") \in Students \cup {NoRow}
<1>1. ASSUME NEW S \in SUBSET Accounts
      PROVE  First(S) = NoRow \/ \E a \in S : First(S) = a.id
  BY DEF First
<1>2. ASSUME NEW S \in SUBSET Accounts
      PROVE  First(S) \in {a.id : a \in Accounts} \cup {NoRow}
  BY <1>1
<1>3. /\ AccountId(c.user, "lecturer") \in {a.id : a \in Accounts} \cup {NoRow}
      /\ AccountIdIn(c.user, c.org, "lecturer") \in {a.id : a \in Accounts} \cup {NoRow}
  BY <1>2 DEF AccountId, AccountIdIn
<1>4. AccountIdIn(c.user, c.org, "student") \in Students \cup {NoRow}
  <2> DEFINE S == {a \in Accounts : a.user = c.user /\ a.org = c.org /\ a.role = "student"}
  <2>1. First(S) = NoRow \/ \E a \in S : First(S) = a.id
    BY <1>1
  <2>2. QED
    BY <2>1, RowsAssumption DEF AccountIdIn
<1>5. QED  BY <1>3, <1>4 DEF ScopedId, LecturerId

-----------------------------------------------------------------------------
(* The groups: the settings fit, and a call that is going to change them   *)
(* has compared with what they still are, unless two of them raced.        *)
SettingsOK ==
  /\ groups \in [Groups -> GroupRow \cup {NoRow}]
  /\ StartWithinLives
  /\ \A r \in Requests : pc[r] = "config" =>
       /\ call[r].group \in Groups /\ groups[call[r].group] # NoRow
       /\ call[r].sent \in Payloads
       /\ call[r].group \in raced \/ Fits(call[r].sent, groups[call[r].group])
       /\ \A q \in Requests \ {r} : pc[q] = "config" /\ call[q].group = call[r].group
            => call[r].group \in raced

(* What a template holds is complete, and its settings fit as well.        *)
Whole(row) ==
  /\ row \in [creator : {a.id : a \in Accounts}, public : BOOLEAN, data : {row.data}]
  /\ Snapshot(row.data)
  /\ row.data.raced \/ LivesFit(row.data.lives, row.data.starting)

TemplatesOK ==
  /\ DOMAIN templates = TemplateIds
  /\ \A t \in TemplateIds : templates[t] # NoRow => Whole(templates[t])
  /\ favorites \subseteq Favorite
  /\ \A r \in Requests :
       /\ pc[r] = "export" =>
            LET c == call[r] IN
            /\ c.group \in Groups /\ c.creator \in {a.id : a \in Accounts}
            /\ c.public \in BOOLEAN /\ c.raced \in BOOLEAN
            /\ c.lives \in Nat \cup {Unlimited} /\ c.starting \in Nat
            /\ c.raced \/ LivesFit(c.lives, c.starting)
            /\ Held(c.ranks, RankIds, Nat) /\ c.badges \subseteq BadgeIds
       /\ pc[r] \in {"templateSave", "clone"} => Whole(call[r].row)
       /\ pc[r] = "templateSave" => call[r].template \in TemplateIds
       /\ pc[r] = "favorite" =>
            call[r].favorite \in {a.id : a \in Accounts} \X TemplateIds

LEMMA PayloadSettings ==
  ASSUME NEW p \in Payloads, NEW row \in GroupRow
  PROVE  /\ Sent(p.lives, row.lives) \in Nat \cup {Unlimited}
         /\ Sent(p.starting, row.starting) \in Nat
         /\ p.lives \notin {Keep, Unlimited} => p.lives \in Nat
  BY GroupRowsAssumption DEF Payloads, GroupRow, Sent

LEMMA NewGroupSettings ==
  ASSUME NEW p \in Payloads, NEW teacher \in {a.id : a \in Accounts}
  PROVE  NewGroup(teacher, p) \in GroupRow
<1>1. /\ p.lives \in LivesSent \cup {Keep} /\ p.starting \in (LivesSent \ {Unlimited}) \cup {Keep}
      /\ LivesSent \ {Unlimited} \subseteq Nat
  BY GroupRowsAssumption DEF Payloads
<1>2. Sent(p.lives, Unlimited) \in Nat \cup {Unlimited}
  BY <1>1 DEF Sent
<1>3. QED
  BY <1>1, <1>2 DEF NewGroup, GroupRow

LEMMA SettingsStay ==
  ASSUME SettingsOK, UNCHANGED <<groups, raced>>,
         \A q \in Requests : pc'[q] = "config" => Same(q)
  PROVE  SettingsOK'
<1>1. StartWithinLives'
  BY DEF SettingsOK, StartWithinLives
<1>2. ASSUME NEW r \in Requests, pc'[r] = "config"
      PROVE  /\ pc[r] = "config" /\ call'[r] = call[r]
             /\ \A q \in Requests \ {r} : pc'[q] = "config" => pc[q] = "config" /\ call'[q] = call[q]
  BY <1>2 DEF Same
<1>3. QED
  BY <1>1, <1>2 DEF SettingsOK, Fits

LEMMA CreateGroupSettings ==
  ASSUME CallsOK, SettingsOK, NEW r \in Requests, CreateGroup(r)
  PROVE  SettingsOK'
<1>1. PICK c \in Callers, g \in Groups :
        /\ groups[g] = NoRow /\ ScopedId(c, "lecturer") # NoRow
        /\ \E row \in {NewGroup(ScopedId(c, "lecturer"), p) : p \in Payloads} :
             LivesFit(row.lives, row.starting) /\ groups' = [groups EXCEPT ![g] = row]
        /\ raced' = raced
  BY DEF CreateGroup, Fresh
<1>2. PICK row \in {NewGroup(ScopedId(c, "lecturer"), p) : p \in Payloads} :
        LivesFit(row.lives, row.starting) /\ groups' = [groups EXCEPT ![g] = row]
  BY <1>1
<1>3. row \in GroupRow
  BY <1>1, <1>2, AccountOf, NewGroupSettings
<1>4. \A q \in Requests : Same(q)
  BY AtOnceMoves DEF CreateGroup
<1>5. \A h \in Groups : h # g => groups'[h] = groups[h]
  BY <1>1, <1>2 DEF SettingsOK
<1>6. groups' \in [Groups -> GroupRow \cup {NoRow}]
  BY <1>1, <1>2, <1>3 DEF SettingsOK
<1>7. StartWithinLives'
  BY <1>1, <1>2, <1>5 DEF SettingsOK, StartWithinLives
<1>8. ASSUME NEW q \in Requests, pc'[q] = "config"
      PROVE  call[q].group # g /\ call[q].group \in Groups
  BY <1>1, <1>2, <1>4, <1>8 DEF SettingsOK, Same
<1>9. QED
  BY <1>1, <1>2, <1>4, <1>5, <1>6, <1>7, <1>8 DEF SettingsOK, Same, Fits

LEMMA ConfigReadSettings ==
  ASSUME CallsOK, SettingsOK, NEW r \in Requests, ConfigRead(r)
  PROVE  SettingsOK'
<1>1. PICK g \in Groups, p \in Payloads, op \in {"group", "lives"}, tell \in BOOLEAN :
        /\ groups[g] # NoRow /\ Fits(p, groups[g])
        /\ Begin(r, "config", [op |-> op, group |-> g, sent |-> p, tell |-> tell])
        /\ raced' = IF \E q \in Requests : pc[q] = "config" /\ call[q].group = g
                    THEN raced \cup {g} ELSE raced
        /\ groups' = groups
  BY DEF ConfigRead
<1>2. /\ pc'[r] = "config" /\ call'[r].group = g /\ call'[r].sent = p
      /\ \A q \in Requests \ {r} : Same(q)
      /\ pc[r] = "idle"
  BY <1>1, CallIs
<1>3. StartWithinLives'
  BY <1>1 DEF SettingsOK, StartWithinLives
<1>4. ASSUME NEW q \in Requests \ {r}, pc[q] = "config", call[q].group = g
      PROVE  g \in raced'
  BY <1>1, <1>4
<1>5. raced \subseteq raced'
  BY <1>1
<1>6. ASSUME NEW q \in Requests, pc'[q] = "config"
      PROVE  /\ call'[q].group \in Groups /\ groups'[call'[q].group] # NoRow
             /\ call'[q].sent \in Payloads
             /\ call'[q].group \in raced' \/ Fits(call'[q].sent, groups'[call'[q].group])
             /\ \A k \in Requests \ {q} : pc'[k] = "config" /\ call'[k].group = call'[q].group
                  => call'[q].group \in raced'
  <2>1. CASE q = r
    BY <1>1, <1>2, <1>4, <2>1 DEF Same
  <2>2. CASE q # r
    <3>1. pc[q] = "config" /\ call'[q] = call[q]
      BY <1>2, <1>6, <2>2 DEF Same
    <3>2. ASSUME NEW k \in Requests \ {q}, pc'[k] = "config", call'[k].group = call[q].group
          PROVE  call[q].group \in raced'
      <4>1. CASE k = r
        BY <1>2, <1>4, <2>2, <3>1, <3>2, <4>1
      <4>2. CASE k # r
        BY <1>2, <1>5, <2>2, <3>1, <3>2, <4>2 DEF Same, SettingsOK
      <4>3. QED  BY <4>1, <4>2
    <3>3. QED  BY <1>1, <1>5, <3>1, <3>2 DEF SettingsOK
  <2>3. QED  BY <2>1, <2>2
<1>7. QED
  BY <1>1, <1>3, <1>6 DEF SettingsOK, Fits

LEMMA ConfigWriteSettings ==
  ASSUME CallsOK, SettingsOK, NEW r \in Requests, ConfigWrite(r)
  PROVE  SettingsOK'
<1> DEFINE g == call[r].group
           p == call[r].sent
<1>1. /\ pc[r] = "config" /\ g \in Groups /\ groups[g] # NoRow /\ p \in Payloads /\ raced' = raced
      /\ g \in raced \/ Fits(p, groups[g])
      /\ \A q \in Requests \ {r} : pc[q] = "config" /\ call[q].group = g => g \in raced
      /\ groups[g] \in GroupRow
  BY DEF ConfigWrite, SettingsOK
<1>2. groups' = [groups EXCEPT ![g].lives = Sent(p.lives, @), ![g].starting = Sent(p.starting, @)]
  BY DEF ConfigWrite
<1>3. pc'[r] # "config" /\ \A q \in Requests \ {r} : Same(q)
  BY CallIs DEF ConfigWrite
<1>4. /\ groups'[g] \in GroupRow
      /\ groups'[g].lives = Sent(p.lives, groups[g].lives)
      /\ groups'[g].starting = Sent(p.starting, groups[g].starting)
      /\ \A h \in Groups : h # g => groups'[h] = groups[h]
      /\ DOMAIN groups' = Groups
  <2>1. /\ Sent(p.lives, groups[g].lives) \in Nat \cup {Unlimited}
        /\ Sent(p.starting, groups[g].starting) \in Nat
    BY <1>1, PayloadSettings
  <2>2. QED  BY <1>1, <1>2, <2>1 DEF SettingsOK, GroupRow
<1>5. groups' \in [Groups -> GroupRow \cup {NoRow}]
  <2>1. groups' = [h \in Groups |-> groups'[h]]
    BY <1>2 DEF SettingsOK
  <2>2. QED  BY <1>4, <2>1 DEF SettingsOK
<1>6. StartWithinLives'
  BY <1>1, <1>4 DEF SettingsOK, StartWithinLives, Fits
<1>7. ASSUME NEW q \in Requests, pc'[q] = "config"
      PROVE  /\ q # r /\ pc[q] = "config" /\ call'[q] = call[q]
             /\ call[q].group = g => g \in raced
             /\ groups'[call[q].group] # NoRow
  BY <1>1, <1>3, <1>4, <1>7, RowsAssumption DEF Same, SettingsOK
<1>8. QED
  BY <1>1, <1>4, <1>5, <1>6, <1>7 DEF SettingsOK

LEMMA ImportIs ==
  ASSUME NEW r \in Requests, Import(r)
  PROVE  \E c \in Callers, t \in TemplateIds, g \in Groups : \E km, bm, om, pm, sm, am :
           LET d == templates[t].data IN
           /\ templates[t] # NoRow /\ Fresh(groups, g)
           /\ LecturerId(c) # NoRow /\ AtOnce(r)
           /\ km \in Fn!Injection(DOMAIN d.ranks, FreeIds(ranks, RankIds))
           /\ bm \in Fn!Injection(d.badges, FreeIds(badges, BadgeIds))
           /\ om \in Fn!Injection(DOMAIN d.offers, FreeIds(offers, OfferIds))
           /\ pm \in Fn!Injection(d.posts, FreeIds(posts, PostIds))
           /\ sm \in Fn!Injection(DOMAIN d.orders, FreeIds(stages, StageIds))
           /\ am \in Fn!Injection(DOMAIN d.acts, FreeIds(activities, ActivityIds))
           /\ Copied(g, LecturerId(c), d, km, bm, om, pm, sm, am)
           /\ UNCHANGED <<members, notices, earned, done, templates, favorites>>
<1>1. PICK c \in Callers, t \in TemplateIds, g \in Groups :
        /\ templates[t] # NoRow /\ Fresh(groups, g)
        /\ LecturerId(c) # NoRow /\ AtOnce(r)
        /\ UNCHANGED <<members, notices, earned, done, templates, favorites>>
        /\ LET d == templates[t].data IN
           \E km \in Fn!Injection(DOMAIN d.ranks, FreeIds(ranks, RankIds)),
              bm \in Fn!Injection(d.badges, FreeIds(badges, BadgeIds)),
              om \in Fn!Injection(DOMAIN d.offers, FreeIds(offers, OfferIds)),
              pm \in Fn!Injection(d.posts, FreeIds(posts, PostIds)),
              sm \in Fn!Injection(DOMAIN d.orders, FreeIds(stages, StageIds)),
              am \in Fn!Injection(DOMAIN d.acts, FreeIds(activities, ActivityIds)) :
             Copied(g, LecturerId(c), d, km, bm, om, pm, sm, am)
  BY Zenon DEF Import
<1>2. QED  BY Zenon, <1>1

LEMMA ImportGroups ==
  ASSUME NEW r \in Requests, Import(r)
  PROVE  \E c \in Callers, t \in TemplateIds, g \in Groups :
           /\ templates[t] # NoRow /\ groups[g] = NoRow /\ LecturerId(c) # NoRow
           /\ groups' = [groups EXCEPT ![g] = [teacher |-> LecturerId(c),
                lives |-> templates[t].data.lives, starting |-> templates[t].data.starting]]
           /\ raced' = IF templates[t].data.raced THEN raced \cup {g} ELSE raced
<1>1. PICK c \in Callers, t \in TemplateIds, g \in Groups :
        \E km, bm, om, pm, sm, am :
          /\ templates[t] # NoRow /\ Fresh(groups, g) /\ LecturerId(c) # NoRow
          /\ Copied(g, LecturerId(c), templates[t].data, km, bm, om, pm, sm, am)
  BY ImportIs
<1>2. PICK km, bm, om, pm, sm, am :
        Copied(g, LecturerId(c), templates[t].data, km, bm, om, pm, sm, am)
  BY <1>1
<1>3. QED  BY <1>1, <1>2 DEF Copied, Fresh

LEMMA ImportedGroup ==
  ASSUME TemplatesOK, NEW c, LecturerId(c) # NoRow, NEW t \in TemplateIds, templates[t] # NoRow
  PROVE  [teacher |-> LecturerId(c), lives |-> templates[t].data.lives,
          starting |-> templates[t].data.starting] \in GroupRow
<1>1. Whole(templates[t])
  BY DEF TemplatesOK
<1>2. templates[t].data.lives \in Nat \cup {Unlimited} /\ templates[t].data.starting \in Nat
  BY <1>1 DEF Whole, Snapshot
<1>3. QED  BY <1>2, AccountOf DEF GroupRow

LEMMA ImportSettings ==
  ASSUME CallsOK, SettingsOK, TemplatesOK, NEW r \in Requests, Import(r)
  PROVE  SettingsOK'
<1>1. PICK c \in Callers, t \in TemplateIds, g \in Groups :
        /\ templates[t] # NoRow /\ groups[g] = NoRow /\ LecturerId(c) # NoRow
        /\ groups' = [groups EXCEPT ![g] = [teacher |-> LecturerId(c),
             lives |-> templates[t].data.lives, starting |-> templates[t].data.starting]]
        /\ raced' = IF templates[t].data.raced THEN raced \cup {g} ELSE raced
  BY ImportGroups
<1>2. Whole(templates[t])
  BY <1>1 DEF TemplatesOK
<1>3. /\ templates[t].data.lives \in Nat \cup {Unlimited} /\ templates[t].data.starting \in Nat
      /\ templates[t].data.raced \/ LivesFit(templates[t].data.lives, templates[t].data.starting)
  BY <1>2 DEF Whole, Snapshot
<1>4. /\ groups' \in [Groups -> GroupRow \cup {NoRow}]
      /\ \A h \in Groups : h # g => groups'[h] = groups[h]
      /\ groups'[g].lives = templates[t].data.lives /\ groups'[g].starting = templates[t].data.starting
  BY <1>1, <1>3, AccountOf DEF SettingsOK, GroupRow
<1>5. StartWithinLives'
  BY <1>1, <1>3, <1>4 DEF SettingsOK, StartWithinLives
<1>6. \A q \in Requests : Same(q)
  BY AtOnceMoves DEF Import
<1>7. ASSUME NEW q \in Requests, pc'[q] = "config"
      PROVE  call[q].group # g /\ call[q].group \in Groups
  BY <1>1, <1>6, <1>7 DEF SettingsOK, Same
<1>8. QED
  BY <1>1, <1>4, <1>5, <1>6, <1>7 DEF SettingsOK, Same, Fits

(* Only these calls write to the groups; a group is never deleted.         *)
LEMMA SettingsSteps ==
  ASSUME CallsOK, NEW r \in Requests, CallStep(r)
  PROVE  \/ CreateGroup(r) \/ ConfigRead(r) \/ ConfigWrite(r) \/ Import(r)
         \/ UNCHANGED <<groups, raced>> /\ \A q \in Requests : pc'[q] = "config" => Same(q)
<1>1. CASE GroupStep(r)
  <2>1. CASE CapRead(r)
    BY <2>1, CallIs DEF CapRead
  <2>2. CASE CapCompare(r) \/ CapWrite(r)
    <3>1. UNCHANGED <<groups, raced>> /\ pc[r] # "config" /\ pc'[r] # "config"
      <4>1. CASE CapCompare(r)
        BY <4>1, CallIs DEF CapCompare, Compare
      <4>2. CASE CapWrite(r)
        BY <4>2, CallIs, OvertakingIs DEF CapWrite
      <4>3. QED  BY <2>2, <4>1, <4>2
    <3>2. QED  BY <2>2, <3>1, <1>1, GroupMoves DEF Moved, Drafting, Writing, Same
  <2>3. CASE JoinRead(r)
    BY <2>3, CallIs DEF JoinRead
  <2>4. CASE JoinWrite(r) \/ Notify(r)
    BY <2>4, CallIs DEF JoinWrite, Notify
  <2>5. QED
    BY <1>1, <2>1, <2>2, <2>3, <2>4 DEF GroupStep
<1>2. CASE RankStep(r)
  <2>1. UNCHANGED <<groups, raced>>
    BY <1>2 DEF RankStep, CreateRank, UpdateRankRead, UpdateRankSave, DeleteRankRead, DeleteRank,
                Recalculate, CreateBadge, UpdateBadgeRead, UpdateBadge,
                DeleteBadgeRead, RevokeRead, RevokeCompare, DeleteBadge, ToggleBadge,
                AwardRead, AwardCompare, AwardWrite, Compare
  <2>2. QED
    BY <1>2, <2>1, RankMoves DEF Moved, RankSteps, Drafting, Writing, Same
<1>3. CASE StageStep(r)
  <2>1. UNCHANGED <<groups, raced>>
    BY <1>3 DEF StageStep, CreateStage, ModifyStageRead, ModifyStageSave, RemoveStageFind,
                RemoveStage, ReorderStages, CreateActivityCheck, CreateActivity,
                ModifyActivityRead, ModifyActivitySave, RemoveCompletions, RemoveActivity,
                Complete, groupRows
  <2>2. QED
    BY <1>3, <2>1, StageMoves DEF Moved, StageSteps, Same
<1>4. CASE PostStep(r)
  <2>1. UNCHANGED <<groups, raced>>
    BY <1>4 DEF PostStep, CreatePost, UpdatePostRead, UpdatePost, DeletePost, PostJobFind,
                PostJobPublish, Tell
  <2>2. QED
    BY <1>4, <2>1, PostMoves DEF Moved, PostSteps, Same
<1>5. CASE BacklogStep(r)
  BY <1>5, BacklogMoves DEF Same
<1>6. CASE TemplateStep(r) /\ ~Import(r)
  <2>1. UNCHANGED <<groups, raced>>
    BY <1>6 DEF TemplateStep, OfferCheck, OfferSave, DeleteOffer, ExportRead, ExportSave,
                TemplateRead, TemplateSave, DeleteTemplate, FavoriteCheck, FavoriteSave,
                Unfavorite, pageRows
  <2>2. QED
    BY <1>6, <2>1, TemplateMoves DEF Moved, TemplateSteps, Same
<1>7. CASE Fail(r)
  BY <1>7, FailMoves DEF Fail, Moved, Same
<1>8. QED
  BY <1>1, <1>2, <1>3, <1>4, <1>5, <1>6, <1>7 DEF CallStep

LEMMA SettingsNext ==
  ASSUME CallsOK, SettingsOK, TemplatesOK, [Next]_pageVars
  PROVE  SettingsOK'
<1>1. ASSUME NEW r \in Requests, CallStep(r)
      PROVE  SettingsOK'
  BY <1>1, SettingsSteps, SettingsStay, CreateGroupSettings, ConfigReadSettings,
     ConfigWriteSettings, ImportSettings
<1>2. CASE UNCHANGED <<groups, raced, pc, call>>
  BY <1>2, SettingsStay DEF Same
<1>3. QED
  BY <1>1, <1>2 DEF Next, TimePasses, calls, pageVars, pageRows

LEMMA GroupsStay ==
  ASSUME CallsOK, SettingsOK, [Next]_pageVars, NEW g \in Groups, groups[g] # NoRow
  PROVE  groups'[g] # NoRow
<1>1. ASSUME NEW r \in Requests, CreateGroup(r)
      PROVE  groups'[g] # NoRow
  BY <1>1 DEF CreateGroup, Fresh, SettingsOK
<1>2. ASSUME NEW r \in Requests, ConfigWrite(r)
      PROVE  groups'[g] # NoRow
  <2>1. SettingsOK'
    BY <1>2, ConfigWriteSettings
  <2>2. /\ call[r].group \in Groups /\ groups[call[r].group] # NoRow
        /\ call[r].sent \in Payloads
    BY <1>2 DEF ConfigWrite, SettingsOK
  <2>3. groups[call[r].group] \in GroupRow
    BY <2>2 DEF SettingsOK
  <2>4. groups'[call[r].group] \in GroupRow
    BY <1>2, <2>2, <2>3, PayloadSettings DEF ConfigWrite, SettingsOK, GroupRow
  <2>5. CASE g # call[r].group
    BY <1>2, <2>2, <2>5 DEF ConfigWrite, SettingsOK
  <2>6. QED  BY <2>4, <2>5, RowsAssumption
<1>3. ASSUME NEW r \in Requests, Import(r)
      PROVE  groups'[g] # NoRow
  BY <1>3, ImportGroups DEF SettingsOK
<1>4. ASSUME NEW r \in Requests, CallStep(r)
      PROVE  groups'[g] # NoRow
  BY <1>1, <1>2, <1>3, <1>4, SettingsSteps DEF ConfigRead
<1>5. QED
  BY <1>4 DEF Next, TimePasses, pageVars, pageRows

(* A deleted row keeps its id.                                             *)
GoneGrows ==
  gone' = gone \cup Deleted(ranks, ranks') \cup Deleted(badges, badges')
    \cup Deleted(earned, earned')
    \cup Deleted(stages, stages') \cup Deleted(activities, activities')
    \cup Deleted(posts, posts') \cup Deleted(offers, offers') \cup Deleted(templates, templates')

LEMMA GoneFacts ==
  ASSUME GoneGrows
  PROVE  /\ gone \subseteq gone'
         /\ \A x \in DOMAIN ranks : ranks[x] # NoRow => ranks'[x] # NoRow \/ x \in gone'
         /\ \A x \in DOMAIN badges : badges[x] # NoRow => badges'[x] # NoRow \/ x \in gone'
         /\ \A x \in DOMAIN posts : posts[x] # NoRow => posts'[x] # NoRow \/ x \in gone'
  BY DEF GoneGrows, Deleted, There

(* The steps from which a call of the service goes on.                     *)
LEMMA ServiceGuards ==
  ASSUME NEW r \in Requests
  PROVE  /\ GroupStep(r) => pc[r] \in GroupSteps
         /\ RankStep(r) => pc[r] \in RankSteps
         /\ StageStep(r) => pc[r] \in StageSteps
         /\ PostStep(r) => pc[r] \in PostSteps
         /\ BacklogStep(r) => pc[r] = "idle"
         /\ TemplateStep(r) => pc[r] \in TemplateSteps
<1> USE DEF Begin, AtOnce
<1>1. GroupStep(r) => pc[r] \in GroupSteps
  BY DEF GroupStep, CreateGroup, ConfigRead, ConfigWrite, CapRead, CapCompare, CapWrite, Compare, JoinRead,
         JoinWrite, Notify, GroupSteps
<1>2. RankStep(r) => pc[r] \in RankSteps
  BY DEF RankStep, CreateRank, UpdateRankRead, UpdateRankSave, DeleteRankRead, DeleteRank,
         Recalculate, CreateBadge, UpdateBadgeRead, UpdateBadge,
         DeleteBadgeRead, RevokeRead, RevokeCompare, DeleteBadge, ToggleBadge,
         AwardRead, AwardCompare, AwardWrite, Compare, RankSteps
<1>3. StageStep(r) => pc[r] \in StageSteps
  BY DEF StageStep, CreateStage, ModifyStageRead, ModifyStageSave, RemoveStageFind,
         RemoveStage, ReorderStages, CreateActivityCheck, CreateActivity, ModifyActivityRead,
         ModifyActivitySave, RemoveCompletions, RemoveActivity, Complete, StageSteps
<1>4. PostStep(r) => pc[r] \in PostSteps
  BY DEF PostStep, CreatePost, UpdatePostRead, UpdatePost, DeletePost, PostJobFind,
         PostJobPublish, Tell, PostSteps
<1>5. BacklogStep(r) => pc[r] = "idle"
  BY DEF BacklogStep, MarkAsRead, MarkAllAsRead, ClearBacklog, UseItem
<1>6. TemplateStep(r) => pc[r] \in TemplateSteps
  <2>1. Import(r) => pc[r] = "idle"
    BY DEF Import
  <2>2. QED
    BY <2>1 DEF TemplateStep, OfferCheck, OfferSave, DeleteOffer, ExportRead, ExportSave,
       TemplateRead, TemplateSave, DeleteTemplate, FavoriteCheck, FavoriteSave, Unfavorite,
       TemplateSteps
<1>7. QED  BY <1>1, <1>2, <1>3, <1>4, <1>5, <1>6

-----------------------------------------------------------------------------
(* The posts: what a member can see has been announced or is going to be;  *)
(* a call that has seen a post published will not announce it again.       *)
Announcing(p) ==
  \/ told[p] \in {"yes", "missed"}
  \/ \E r \in Requests : pc[r] = "postTell" /\ call[r].post = p

KnownPost(p) == p \in PostIds /\ (posts[p] # NoRow \/ p \in gone)

PostCall(r) ==
  /\ pc[r] = "postSave" =>
       /\ KnownPost(call[r].post) /\ call[r].sent \in Changes
       /\ call[r].was = FALSE \/ Announcing(call[r].post)
  /\ pc[r] = "postTell" => call[r].post \in PostIds /\ call[r].rest \subseteq PostIds
  /\ pc[r] = "postJob" => call[r].rest \subseteq PostIds

PostRowsOK ==
  /\ posts \in [PostIds -> [group : Groups, shown : BOOLEAN, at : Times] \cup {NoRow}]
  /\ \A p \in PostIds : posts[p] # NoRow => groups[posts[p].group] # NoRow
  /\ told \in [PostIds -> {"no", "yes", "missed"}]

PostsOK == PostRowsOK /\ PublishedAnnounced /\ \A r \in Requests : PostCall(r)

LEMMA AnnouncingStays ==
  ASSUME NEW r \in Requests, NEW p, \A q \in Requests \ {r} : Same(q), Announcing(p),
         \/ told'[p] \in {"yes", "missed"}
         \/ told'[p] = told[p] /\ (pc[r] = "postTell" /\ call[r].post = p => Same(r))
  PROVE  Announcing(p)'
  BY DEF Announcing, Same

(* What a step of call r has to keep.                                      *)
LEMMA PostsKept ==
  ASSUME PostsOK, NEW r \in Requests, \A q \in Requests \ {r} : Same(q),
         PostRowsOK', PostCall(r)',
         \A p \in PostIds : KnownPost(p) => KnownPost(p)',
         \A p \in PostIds : KnownPost(p) /\ Announcing(p) => Announcing(p)',
         \A p \in PostIds : posts'[p] # NoRow /\ posts'[p].shown => Announcing(p)'
  PROVE  PostsOK'
<1>1. PublishedAnnounced'
  BY DEF PublishedAnnounced, Announcing
<1>2. ASSUME NEW q \in Requests, q # r
      PROVE  PostCall(q)'
  BY <1>2 DEF PostsOK, PostCall, Same, KnownPost
<1>3. QED
  BY <1>1, <1>2 DEF PostsOK

(* A step that writes no post and announces none.                          *)
LEMMA PostsStay ==
  ASSUME PostsOK, NEW r \in Requests, \A q \in Requests \ {r} : Same(q),
         UNCHANGED <<posts, told>>, gone \subseteq gone', PostCall(r)',
         pc[r] = "postTell" => Same(r),
         \A g \in Groups : groups[g] # NoRow => groups'[g] # NoRow
  PROVE  PostsOK'
<1>1. PostRowsOK'
  BY DEF PostsOK, PostRowsOK
<1>2. \A p \in PostIds : KnownPost(p) => KnownPost(p)'
  BY DEF KnownPost
<1>3. ASSUME NEW p \in PostIds, Announcing(p) PROVE Announcing(p)'
  BY <1>3, AnnouncingStays
<1>4. \A p \in PostIds : posts'[p] # NoRow /\ posts'[p].shown => Announcing(p)'
  BY <1>3 DEF PostsOK, PublishedAnnounced, Announcing
<1>5. QED  BY <1>1, <1>2, <1>3, <1>4, PostsKept

LEMMA CreatePostPosts ==
  ASSUME CallsOK, PostsOK, NEW r \in Requests, CreatePost(r), gone \subseteq gone'
  PROVE  PostsOK'
<1>1. PICK c \in Callers, g \in Groups, p \in PostIds, at \in Times :
        /\ groups[g] # NoRow /\ posts[p] = NoRow /\ p \notin gone
        /\ IF at = "passed"
           THEN Begin(r, "postTell", [group |-> g, post |-> p, rest |-> {}])
           ELSE AtOnce(r)
        /\ posts' = [posts EXCEPT ![p] =
             [group |-> g, shown |-> at = "passed", at |-> IF at = "passed" THEN "never" ELSE at]]
        /\ told' = [told EXCEPT ![p] = "no"] /\ UNCHANGED groups
  BY DEF CreatePost, Fresh
<1>2. /\ \A q \in Requests \ {r} : Same(q)
      /\ pc[r] = "idle"
      /\ at = "passed" => pc'[r] = "postTell" /\ call'[r] = [group |-> g, post |-> p, rest |-> {}]
      /\ at # "passed" => pc'[r] = "idle"
  BY <1>1, CallIs DEF Same
<1>3. /\ posts'[p].group = g /\ (posts'[p].shown => at = "passed") /\ posts'[p] # NoRow
      /\ \A x \in PostIds : x # p => posts'[x] = posts[x] /\ told'[x] = told[x]
  <2>1. (at = "passed") \in BOOLEAN /\ (IF at = "passed" THEN "never" ELSE at) \in Times
    BY DEF Times
  <2>2. PICK row : row = [group |-> g, shown |-> at = "passed",
                          at |-> IF at = "passed" THEN "never" ELSE at]
    OBVIOUS
  <2>3. row \in [group : Groups, shown : BOOLEAN, at : Times]
    BY <2>1, <2>2
  <2>4. row # NoRow /\ row.group = g /\ (row.shown => at = "passed")
    BY <2>2, <2>3, RowsAssumption
  <2>5. posts' = [posts EXCEPT ![p] = row] /\ DOMAIN posts = PostIds /\ DOMAIN told = PostIds
    BY <1>1, <2>2 DEF PostsOK, PostRowsOK
  <2>6. QED  BY <1>1, <2>4, <2>5
<1>4. PostRowsOK'
  BY <1>1, <1>3 DEF PostsOK, PostRowsOK, Times
<1>5. PostCall(r)'
  BY <1>2 DEF PostCall
<1>6. \A x \in PostIds : KnownPost(x) => KnownPost(x)' /\ x # p
  BY <1>1, <1>3 DEF KnownPost
<1>7. ASSUME NEW x \in PostIds, x # p, Announcing(x) PROVE Announcing(x)'
  BY <1>2, <1>3, <1>7, AnnouncingStays
<1>8. ASSUME NEW x \in PostIds, posts'[x] # NoRow, posts'[x].shown PROVE Announcing(x)'
  <2>1. CASE x = p
    BY <1>2, <1>3, <1>8, <2>1 DEF Announcing
  <2>2. CASE x # p
    BY <1>3, <1>7, <1>8, <2>2 DEF PostsOK, PublishedAnnounced, Announcing
  <2>3. QED  BY <2>1, <2>2
<1>9. QED  BY <1>2, <1>4, <1>5, <1>6, <1>7, <1>8, PostsKept

LEMMA UpdatePostReadPosts ==
  ASSUME CallsOK, PostsOK, NEW r \in Requests, UpdatePostRead(r), gone \subseteq gone'
  PROVE  PostsOK'
<1>1. PICK c \in Callers, p \in PostIds, sent \in Changes :
        /\ posts[p] # NoRow
        /\ Begin(r, "postSave", [group |-> posts[p].group, post |-> p, sent |-> sent,
                                 was |-> posts[p].shown])
        /\ UNCHANGED <<groups, posts, told>>
  BY DEF UpdatePostRead, postRows
<1>2. /\ \A q \in Requests \ {r} : Same(q)
      /\ pc[r] = "idle" /\ pc'[r] = "postSave"
      /\ call'[r].post = p /\ call'[r].sent = sent /\ call'[r].was = posts[p].shown
  BY <1>1, CallIs
<1>3. posts[p].shown = FALSE \/ Announcing(p)
  BY <1>1 DEF PostsOK, PostRowsOK, PublishedAnnounced, Announcing
<1>4. Announcing(p) => Announcing(p)'
  BY <1>1, <1>2, AnnouncingStays
<1>5. KnownPost(p)'
  BY <1>1 DEF KnownPost
<1>6. PostCall(r)'
  <2>1. call'[r].was = FALSE \/ Announcing(p)'
    BY <1>2, <1>3, <1>4
  <2>2. QED  BY <1>2, <1>5, <2>1 DEF PostCall, Announcing
<1>7. QED  BY <1>1, <1>2, <1>6, PostsStay

LEMMA UpdatePostPosts ==
  ASSUME CallsOK, PostsOK, NEW r \in Requests, UpdatePost(r), gone \subseteq gone'
  PROVE  PostsOK'
<1> DEFINE p == call[r].post
           sent == call[r].sent
           writes == posts[p] # NoRow /\ posts[p].group = call[r].group
<1>1. /\ pc[r] = "postSave" /\ KnownPost(p) /\ sent \in Changes /\ p \in PostIds
      /\ call[r].was = FALSE \/ Announcing(p)
      /\ UNCHANGED <<groups, told>>
  BY DEF UpdatePost, PostsOK, PostCall, KnownPost
<1>2. /\ \A q \in Requests \ {r} : Same(q)
      /\ writes /\ Publishes(call[r]) => pc'[r] = "postTell" /\ call'[r] = Telling(p, {})
      /\ ~(writes /\ Publishes(call[r])) => pc'[r] = "idle"
  BY CallIs DEF UpdatePost
<1>3. /\ NewShown(sent) \in BOOLEAN \cup {Keep} /\ NewTime(sent) \in Times \cup {Keep}
  BY <1>1 DEF NewShown, NewTime, Changes, Times
<1>4. ~writes => posts' = posts
  BY DEF UpdatePost
<1>5. writes => posts' = [posts EXCEPT ![p].shown = Sent(NewShown(sent), @),
                                       ![p].at = Sent(NewTime(sent), @)]
  BY DEF UpdatePost
<1>6. ASSUME writes
      PROVE  /\ posts'[p] \in [group : Groups, shown : BOOLEAN, at : Times]
             /\ posts'[p].group = posts[p].group
             /\ posts'[p].shown = Sent(NewShown(sent), posts[p].shown)
  <2>1. posts[p] \in [group : Groups, shown : BOOLEAN, at : Times]
    BY <1>1, <1>6 DEF PostsOK, PostRowsOK
  <2>2. /\ Sent(NewShown(sent), posts[p].shown) \in BOOLEAN
        /\ Sent(NewTime(sent), posts[p].at) \in Times
    BY <1>3, <2>1 DEF Sent
  <2>3. QED
    BY <1>1, <1>5, <1>6, <2>1, <2>2 DEF PostsOK, PostRowsOK
<1>7. /\ \A x \in PostIds : x # p => posts'[x] = posts[x]
      /\ DOMAIN posts' = PostIds /\ posts' = [x \in PostIds |-> posts'[x]]
  BY <1>4, <1>5 DEF PostsOK, PostRowsOK
<1>8. PostRowsOK'
  <2>1. \A x \in PostIds : posts'[x] \in [group : Groups, shown : BOOLEAN, at : Times] \cup {NoRow}
    BY <1>4, <1>6, <1>7 DEF PostsOK, PostRowsOK
  <2>2. \A x \in PostIds : posts'[x] # NoRow => groups'[posts'[x].group] # NoRow
    BY <1>1, <1>4, <1>6, <1>7 DEF PostsOK, PostRowsOK
  <2>3. QED  BY <1>1, <1>7, <2>1, <2>2 DEF PostsOK, PostRowsOK
<1>9. PostCall(r)'
  BY <1>1, <1>2 DEF PostCall, Telling
<1>10. \A x \in PostIds : KnownPost(x) => KnownPost(x)'
  BY <1>4, <1>6, <1>7, RowsAssumption DEF KnownPost
<1>11. ASSUME NEW x \in PostIds, Announcing(x) PROVE Announcing(x)'
  BY <1>1, <1>2, <1>11, AnnouncingStays
<1>12. ASSUME NEW x \in PostIds, posts'[x] # NoRow, posts'[x].shown PROVE Announcing(x)'
  <2>1. CASE posts[x] # NoRow /\ posts[x].shown
    BY <1>11, <2>1 DEF PostsOK, PublishedAnnounced, Announcing
  <2>2. CASE ~(posts[x] # NoRow /\ posts[x].shown)
    <3>1. x = p /\ writes
      BY <1>4, <1>7, <1>12, <2>2
    <3>2. NewShown(sent) = TRUE
      <4>1. NewShown(sent) # Keep
        BY <1>6, <1>12, <2>2, <3>1 DEF Sent
      <4>2. NewShown(sent)
        BY <1>6, <1>12, <3>1, <4>1 DEF Sent
      <4>3. QED  BY <1>3, <4>1, <4>2
    <3>3. CASE call[r].was = FALSE
      <4>1. pc'[r] = "postTell" /\ call'[r].post = x
        BY <1>2, <3>1, <3>2, <3>3 DEF Publishes, Telling
      <4>2. QED  BY <4>1 DEF Announcing
    <3>4. CASE Announcing(p)
      BY <1>11, <3>1, <3>4
    <3>5. QED  BY <1>1, <3>3, <3>4
  <2>3. QED  BY <2>1, <2>2
<1>13. QED  BY <1>2, <1>8, <1>9, <1>10, <1>11, <1>12, PostsKept

LEMMA DeletePostPosts ==
  ASSUME CallsOK, PostsOK, NEW r \in Requests, DeletePost(r), GoneGrows
  PROVE  PostsOK'
<1>1. PICK p \in PostIds : posts' = [posts EXCEPT ![p] = NoRow]
  BY DEF DeletePost
<1>2. /\ UNCHANGED <<groups, told>> /\ pc[r] = "idle"
      /\ \A q \in Requests : Same(q)
  BY CallIs DEF DeletePost
<1>3. \A x \in PostIds : posts'[x] = IF x = p THEN NoRow ELSE posts[x]
  BY <1>1 DEF PostsOK, PostRowsOK
<1>4. PostRowsOK'
  BY <1>1, <1>2 DEF PostsOK, PostRowsOK
<1>5. \A x \in PostIds : KnownPost(x) => KnownPost(x)'
  BY GoneFacts DEF KnownPost, PostsOK, PostRowsOK
<1>6. ASSUME NEW x \in PostIds, Announcing(x) PROVE Announcing(x)'
  BY <1>2, <1>6, AnnouncingStays
<1>7. \A x \in PostIds : posts'[x] # NoRow /\ posts'[x].shown => Announcing(x)'
  BY <1>3, <1>6 DEF PostsOK, PublishedAnnounced, Announcing
<1>8. PostCall(r)'
  BY <1>2 DEF PostCall, Same
<1>9. QED  BY <1>2, <1>4, <1>5, <1>6, <1>7, <1>8, PostsKept

LEMMA PostJobPublishPosts ==
  ASSUME CallsOK, PostsOK, NEW r \in Requests, PostJobPublish(r), gone \subseteq gone'
  PROVE  PostsOK'
<1>1. PICK p \in call[r].rest :
        LET rest == call[r].rest \ {p} IN
        IF Unpublished(p)
        THEN /\ posts' = [posts EXCEPT ![p] = [@ EXCEPT !.shown = TRUE, !.at = "never"]]
             /\ Goto(r, "postTell", Telling(p, rest))
        ELSE /\ UNCHANGED posts
             /\ IF rest = {} THEN Done(r) ELSE Goto(r, "postJob", [rest |-> rest])
  BY DEF PostJobPublish
<1> DEFINE rest == call[r].rest \ {p}
<1>2. /\ p \in PostIds /\ rest \subseteq PostIds /\ pc[r] = "postJob"
      /\ UNCHANGED <<groups, told>>
  BY DEF PostJobPublish, PostsOK, PostCall
<1>3. CASE ~Unpublished(p)
  <2>1. /\ UNCHANGED posts /\ \A q \in Requests \ {r} : Same(q)
        /\ pc'[r] = "idle" \/ (pc'[r] = "postJob" /\ call'[r] = [rest |-> rest])
    BY <1>1, <1>3, CallIs
  <2>2. PostCall(r)'
    BY <1>2, <2>1 DEF PostCall
  <2>3. QED  BY <1>2, <2>1, <2>2, PostsStay
<1>4. CASE Unpublished(p)
  <2>1. /\ posts' = [posts EXCEPT ![p] = [@ EXCEPT !.shown = TRUE, !.at = "never"]]
        /\ \A q \in Requests \ {r} : Same(q)
        /\ pc'[r] = "postTell" /\ call'[r] = Telling(p, rest)
    BY <1>1, <1>4, CallIs
  <2>2. posts[p] \in [group : Groups, shown : BOOLEAN, at : Times] /\ posts[p] # NoRow
    BY <1>2, <1>4 DEF Unpublished, PostsOK, PostRowsOK
  <2>3. /\ posts'[p] \in [group : Groups, shown : BOOLEAN, at : Times]
        /\ posts'[p].group = posts[p].group
        /\ \A x \in PostIds : x # p => posts'[x] = posts[x]
    BY <1>2, <2>1, <2>2 DEF PostsOK, PostRowsOK, Times
  <2>4. PostRowsOK'
    <3>1. posts' \in [PostIds -> [group : Groups, shown : BOOLEAN, at : Times] \cup {NoRow}]
      <4>1. posts' = [x \in PostIds |-> posts'[x]]
        BY <2>1 DEF PostsOK, PostRowsOK
      <4>2. QED  BY <2>3, <4>1 DEF PostsOK, PostRowsOK
    <3>2. QED  BY <1>2, <2>2, <2>3, <3>1 DEF PostsOK, PostRowsOK
  <2>5. PostCall(r)'
    BY <1>2, <2>1 DEF PostCall, Telling
  <2>6. \A x \in PostIds : KnownPost(x) => KnownPost(x)'
    BY <2>3, RowsAssumption DEF KnownPost
  <2>7. ASSUME NEW x \in PostIds, Announcing(x) PROVE Announcing(x)'
    BY <1>2, <2>1, <2>7, AnnouncingStays
  <2>8. Announcing(p)'
    BY <2>1 DEF Announcing, Telling
  <2>9. \A x \in PostIds : posts'[x] # NoRow /\ posts'[x].shown => Announcing(x)'
    BY <2>3, <2>7, <2>8 DEF PostsOK, PublishedAnnounced, Announcing
  <2>10. QED  BY <2>1, <2>4, <2>5, <2>6, <2>7, <2>9, PostsKept
<1>5. QED  BY <1>3, <1>4

LEMMA TellPosts ==
  ASSUME CallsOK, PostsOK, NEW r \in Requests, Tell(r), gone \subseteq gone'
  PROVE  PostsOK'
<1>1. /\ pc[r] = "postTell" /\ call[r].post \in PostIds /\ call[r].rest \subseteq PostIds
      /\ told' = [told EXCEPT ![call[r].post] = "yes"] /\ UNCHANGED <<groups, posts>>
  BY DEF Tell, PostsOK, PostCall
<1>2. /\ \A q \in Requests \ {r} : Same(q)
      /\ pc'[r] = "idle" \/ (pc'[r] = "postJob" /\ call'[r] = [rest |-> call[r].rest])
  BY CallIs DEF Tell
<1>3. PostRowsOK' /\ \A x \in PostIds : told'[x] = IF x = call[r].post THEN "yes" ELSE told[x]
  BY <1>1 DEF PostsOK, PostRowsOK
<1>4. PostCall(r)'
  BY <1>1, <1>2 DEF PostCall
<1>5. \A x \in PostIds : KnownPost(x) => KnownPost(x)'
  BY <1>1 DEF KnownPost
<1>6. ASSUME NEW x \in PostIds, Announcing(x) PROVE Announcing(x)'
  BY <1>1, <1>2, <1>3, <1>6, AnnouncingStays
<1>7. \A x \in PostIds : posts'[x] # NoRow /\ posts'[x].shown => Announcing(x)'
  BY <1>1, <1>6 DEF PostsOK, PublishedAnnounced, Announcing
<1>8. QED  BY <1>2, <1>3, <1>4, <1>5, <1>6, <1>7, PostsKept

LEMMA FailPosts ==
  ASSUME CallsOK, PostsOK, NEW r \in Requests, Fail(r), PostFails(r), UNCHANGED posts,
         gone \subseteq gone'
  PROVE  PostsOK'
<1>1. /\ \A q \in Requests \ {r} : Same(q)
      /\ pc'[r] = "idle" /\ UNCHANGED groups
  BY CallIs DEF Fail
<1>2. pc[r] = "postTell" => call[r].post \in PostIds
  BY DEF PostsOK, PostCall
<1>3. PostRowsOK'
  BY <1>1 DEF PostFails, PostsOK, PostRowsOK
<1>4. PostCall(r)'
  BY <1>1 DEF PostCall
<1>5. \A x \in PostIds : KnownPost(x) => KnownPost(x)'
  BY DEF KnownPost
<1>6. ASSUME NEW x \in PostIds, Announcing(x) PROVE Announcing(x)'
  <2>1. \/ told'[x] \in {"yes", "missed"}
        \/ told'[x] = told[x] /\ ~(pc[r] = "postTell" /\ call[r].post = x)
    BY DEF PostFails, PostsOK, PostRowsOK
  <2>2. QED  BY <1>1, <1>6, <2>1, AnnouncingStays
<1>7. \A x \in PostIds : posts'[x] # NoRow /\ posts'[x].shown => Announcing(x)'
  BY <1>6 DEF PostsOK, PublishedAnnounced, Announcing
<1>8. QED  BY <1>1, <1>3, <1>4, <1>5, <1>6, <1>7, PostsKept

LEMMA ImportPosts ==
  ASSUME NEW r \in Requests, Import(r), PostRowsOK, SettingsOK, TemplatesOK
  PROVE  \E g \in Groups :
           /\ groups'[g] # NoRow
           /\ DOMAIN posts' = PostIds /\ posts' = [x \in PostIds |-> posts'[x]]
           /\ told' = [x \in PostIds |-> told'[x]]
           /\ \A x \in PostIds :
                \/ posts'[x] = posts[x] /\ told'[x] = told[x]
                \/ /\ ~KnownPost(x) /\ told'[x] = "no"
                   /\ posts'[x] = [group |-> g, shown |-> FALSE, at |-> "never"]
<1>1. PICK c \in Callers, t \in TemplateIds, g \in Groups : \E km, bm, om, pm, sm, am :
        LET d == templates[t].data IN
        /\ templates[t] # NoRow /\ LecturerId(c) # NoRow
        /\ pm \in Fn!Injection(d.posts, FreeIds(posts, PostIds))
        /\ Copied(g, LecturerId(c), d, km, bm, om, pm, sm, am)
  BY ImportIs
<1> DEFINE d == templates[t].data
<1>2. PICK km, bm, om, pm, sm, am :
        /\ pm \in Fn!Injection(d.posts, FreeIds(posts, PostIds))
        /\ Copied(g, LecturerId(c), d, km, bm, om, pm, sm, am)
  BY <1>1
<1>3. /\ posts' = New(posts, pm, LAMBDA p : [group |-> g, shown |-> FALSE, at |-> "never"])
      /\ told' = New(told, pm, LAMBDA p : "no")
      /\ groups' = [groups EXCEPT ![g] =
           [teacher |-> LecturerId(c), lives |-> d.lives, starting |-> d.starting]]
  BY <1>2 DEF Copied
<1>4. \A y \in DOMAIN pm : posts[pm[y]] = NoRow /\ pm[y] \notin gone
  BY <1>2 DEF Fn!Injection, FreeIds, Fresh
<1>5. \A x \in PostIds :
        \/ posts'[x] = posts[x] /\ told'[x] = told[x]
        \/ /\ ~KnownPost(x) /\ told'[x] = "no"
           /\ posts'[x] = [group |-> g, shown |-> FALSE, at |-> "never"]
  BY <1>3, <1>4 DEF New, PostRowsOK, KnownPost
<1>6. posts' = [x \in PostIds |-> posts'[x]] /\ told' = [x \in PostIds |-> told'[x]]
  BY <1>3 DEF New, PostRowsOK
<1>7. groups'[g] # NoRow
  <2>1. [teacher |-> LecturerId(c), lives |-> templates[t].data.lives,
         starting |-> templates[t].data.starting] \in GroupRow
    BY <1>1, ImportedGroup
  <2>2. QED  BY <1>3, <2>1, RowsAssumption DEF SettingsOK
<1>8. QED  BY <1>5, <1>6, <1>7

LEMMA ImportedPosts ==
  ASSUME CallsOK, PostsOK, SettingsOK, TemplatesOK, NEW r \in Requests, Import(r),
         gone \subseteq gone', \A g \in Groups : groups[g] # NoRow => groups'[g] # NoRow
  PROVE  PostsOK'
<1>1. PICK g \in Groups :
        /\ groups'[g] # NoRow
        /\ posts' = [x \in PostIds |-> posts'[x]] /\ told' = [x \in PostIds |-> told'[x]]
        /\ \A x \in PostIds :
             \/ posts'[x] = posts[x] /\ told'[x] = told[x]
             \/ /\ ~KnownPost(x) /\ told'[x] = "no"
                /\ posts'[x] = [group |-> g, shown |-> FALSE, at |-> "never"]
  BY ImportPosts DEF PostsOK
<1>2. pc[r] = "idle" /\ \A q \in Requests : Same(q)
  BY CallIs, ImportIs
<1>3. PostRowsOK'
  <2>1. ASSUME NEW x \in PostIds
        PROVE  posts'[x] \in [group : Groups, shown : BOOLEAN, at : Times] \cup {NoRow}
    <3>1. [group |-> g, shown |-> FALSE, at |-> "never"]
            \in [group : Groups, shown : BOOLEAN, at : Times]
      BY DEF Times
    <3>2. posts[x] \in [group : Groups, shown : BOOLEAN, at : Times] \cup {NoRow}
      BY DEF PostsOK, PostRowsOK
    <3>3. QED  BY <1>1, <3>1, <3>2
  <2>2. ASSUME NEW x \in PostIds, posts'[x] # NoRow PROVE groups'[posts'[x].group] # NoRow
    <3>1. CASE posts'[x] = posts[x]
      <4>1. posts[x].group \in Groups
        BY <2>2, <3>1 DEF PostsOK, PostRowsOK
      <4>2. QED  BY <2>2, <3>1, <4>1 DEF PostsOK, PostRowsOK
    <3>2. CASE posts'[x] = [group |-> g, shown |-> FALSE, at |-> "never"]
      BY <1>1, <3>2
    <3>3. QED  BY <1>1, <3>1, <3>2
  <2>3. \A x \in PostIds : told'[x] \in {"no", "yes", "missed"}
    BY <1>1 DEF PostsOK, PostRowsOK
  <2>4. QED  BY <1>1, <2>1, <2>2, <2>3 DEF PostRowsOK
<1>4. PostCall(r)'
  BY <1>2 DEF PostCall, Same
<1>5. ASSUME NEW x \in PostIds, KnownPost(x) PROVE KnownPost(x)'
  BY <1>1, <1>5 DEF KnownPost
<1>6. ASSUME NEW x \in PostIds, KnownPost(x), Announcing(x) PROVE Announcing(x)'
  BY <1>1, <1>2, <1>6, AnnouncingStays
<1>7. ASSUME NEW x \in PostIds, posts'[x] # NoRow, posts'[x].shown PROVE Announcing(x)'
  <2>1. posts'[x] = posts[x] /\ told'[x] = told[x]
    BY <1>1, <1>7
  <2>2. Announcing(x)
    BY <1>7, <2>1 DEF PostsOK, PublishedAnnounced, Announcing
  <2>3. QED  BY <1>2, <2>1, <2>2, AnnouncingStays
<1>8. QED  BY <1>2, <1>3, <1>4, <1>5, <1>6, <1>7, PostsKept

LEMMA TimePassesPosts ==
  ASSUME PostsOK, NEW p \in PostIds, TimePasses(p), UNCHANGED gone
  PROVE  PostsOK'
<1>1. /\ posts[p] # NoRow /\ UNCHANGED <<groups, told, pc, call>>
      /\ posts' = [posts EXCEPT ![p].at = "passed"]
  BY DEF TimePasses, calls
<1>2. posts[p] \in [group : Groups, shown : BOOLEAN, at : Times]
  BY <1>1 DEF PostsOK, PostRowsOK
<1>3. /\ posts'[p] \in [group : Groups, shown : BOOLEAN, at : Times]
      /\ posts'[p].group = posts[p].group /\ posts'[p].shown = posts[p].shown
      /\ posts' = [x \in PostIds |-> posts'[x]]
      /\ \A x \in PostIds : x # p => posts'[x] = posts[x]
  BY <1>1, <1>2 DEF PostsOK, PostRowsOK, Times
<1>4. PostRowsOK'
  BY <1>1, <1>3 DEF PostsOK, PostRowsOK
<1>5. \A x \in PostIds : KnownPost(x) => KnownPost(x)'
  BY <1>1, <1>3, RowsAssumption DEF KnownPost
<1>6. \A x \in PostIds : Announcing(x) <=> Announcing(x)'
  BY <1>1 DEF Announcing
<1>7. PublishedAnnounced'
  BY <1>1, <1>3 DEF PublishedAnnounced, PostsOK
<1>8. \A r \in Requests : PostCall(r)'
  BY <1>1, <1>5, <1>6 DEF PostsOK, PostCall, KnownPost
<1>9. QED  BY <1>4, <1>7, <1>8 DEF PostsOK

LEMMA PostsNext ==
  ASSUME CallsOK, SettingsOK, TemplatesOK, PostsOK, [Next]_pageVars
  PROVE  PostsOK'
<1>1. \A g \in Groups : groups[g] # NoRow => groups'[g] # NoRow
  BY GroupsStay
<1>2. ASSUME NEW r \in Requests, CallStep(r), GoneGrows
      PROVE  PostsOK'
  <2>0. gone \subseteq gone'
    BY <1>2, GoneFacts
  <2>1. ASSUME pc[r] # "postTell", UNCHANGED <<posts, told>>, NEW S, Moved(r, S),
               \A q \in Requests \ {r} : Same(q),
               S \cap {"postTell", "postSave", "postJob"} = {}
        PROVE  PostsOK'
    <3>1. PostCall(r)'
      BY <2>1 DEF PostCall, Moved
    <3>2. QED  BY <1>1, <2>0, <2>1, <3>1, PostsStay
  <2>3. CASE (GroupStep(r) \/ RankStep(r)) /\ UNCHANGED postRows
    <3>1. PICK S : /\ pc[r] \in S /\ Moved(r, S)
                   /\ S \cap {"postTell", "postSave", "postJob"} = {}
      BY <2>3, GroupMoves, RankMoves, ServiceGuards DEF GroupSteps, RankSteps
    <3>2. \A q \in Requests : q # r => PostCall(q)'
      BY <2>0, <2>3, <3>1 DEF Moved, Drafting, Writing, PostsOK, PostCall, KnownPost, Announcing,
                              postRows
    <3>3. PostCall(r)'
      BY <3>1 DEF PostCall, Moved
    <3>4. PublishedAnnounced'
      BY <2>3, <3>1 DEF Moved, Drafting, Writing, PostsOK, PublishedAnnounced, postRows
    <3>5. PostRowsOK'
      BY <1>1, <2>3 DEF PostsOK, PostRowsOK, postRows
    <3>6. QED  BY <3>2, <3>3, <3>4, <3>5 DEF PostsOK
  <2>4. CASE StageStep(r) /\ UNCHANGED postRows
    BY <2>1, <2>4, StageMoves, ServiceGuards DEF StageSteps, postRows
  <2>5. CASE BacklogStep(r) /\ UNCHANGED postRows
    BY <2>1, <2>5, BacklogMoves, ServiceGuards DEF postRows
  <2>6. CASE TemplateStep(r) /\ ~Import(r)
    <3>1. UNCHANGED postRows
      BY <2>6 DEF TemplateStep, OfferCheck, OfferSave, DeleteOffer, ExportRead, ExportSave,
                  TemplateRead, TemplateSave, DeleteTemplate, FavoriteCheck, FavoriteSave,
                  Unfavorite, pageRows
    <3>2. QED
      BY <2>1, <2>6, <3>1, TemplateMoves, ServiceGuards DEF TemplateSteps, postRows
  <2>7. CASE Import(r)
    BY <1>1, <2>0, <2>7, ImportedPosts
  <2>8. CASE Fail(r) /\ PostFails(r) /\ UNCHANGED posts
    BY <2>0, <2>8, FailPosts
  <2>9. CASE PostJobFind(r)
    <3>1. /\ pc[r] = "idle" /\ pc'[r] = "postJob" /\ call'[r] = [rest |-> Due]
          /\ UNCHANGED <<posts, told>> /\ \A q \in Requests \ {r} : Same(q)
      BY <2>9, CallIs DEF PostJobFind, postRows
    <3>2. PostCall(r)'
      BY <3>1 DEF PostCall, Due
    <3>3. QED  BY <1>1, <2>0, <3>1, <3>2, PostsStay
  <2>10. CASE PostStep(r)
    BY <1>2, <2>0, <2>9, <2>10, CreatePostPosts, UpdatePostReadPosts, UpdatePostPosts,
       DeletePostPosts, PostJobPublishPosts, TellPosts DEF PostStep
  <2>11. QED
    BY <1>2, <2>3, <2>4, <2>5, <2>6, <2>7, <2>8, <2>10 DEF CallStep
<1>3. CASE UNCHANGED <<groups, posts, told, gone, pc, call>>
  <2>1. \A x \in PostIds : KnownPost(x) <=> KnownPost(x)'
    BY <1>3 DEF KnownPost
  <2>2. \A x \in PostIds : Announcing(x) <=> Announcing(x)'
    BY <1>3 DEF Announcing
  <2>3. \A r \in Requests : PostCall(r)'
    BY <1>3 DEF PostsOK, PostCall, KnownPost, Announcing
  <2>4. QED  BY <1>3, <2>3 DEF PostsOK, PostRowsOK, PublishedAnnounced
<1>4. QED
  BY <1>2, <1>3, TimePassesPosts DEF Next, GoneGrows, pageVars, pageRows, postRows, calls

-----------------------------------------------------------------------------
(* The stages, their activities and who completed them.                    *)
StageRecord == [group : Groups, order : Nat \cup {NoRow}, shown : Visibility]
ActivityRecord == [stage : StageIds, shown : BOOLEAN]

StageRowsOK ==
  /\ stages \in [StageIds -> StageRecord \cup {NoRow}]
  /\ \A s \in StageIds : stages[s] # NoRow => groups[stages[s].group] # NoRow
  /\ activities \in [ActivityIds -> ActivityRecord \cup {NoRow}]
  /\ \A a \in ActivityIds : activities[a] # NoRow => stages[activities[a].stage] # NoRow
  /\ done \in [ActivityIds -> SUBSET (Groups \X Students)]
  /\ \A a \in ActivityIds : done[a] # {} => activities[a] # NoRow
  /\ \A a \in ActivityIds : \A g \in Groups, s \in Students :
       <<g, s>> \in done[a] => groups[g] # NoRow

(* A call that is going to save a row holds a row of that kind.            *)
StageCall(r) ==
  /\ pc[r] = "stageSave" =>
       call[r].stage \in StageIds /\ call[r].row \in StageRecord /\ groups[call[r].row.group] # NoRow
  /\ pc[r] = "stageDelete" => call[r].stage \in StageIds /\ call[r].found \subseteq ActivityIds
  /\ pc[r] \in {"activityNew", "activitySave"} =>
       call[r].activity \in ActivityIds /\ call[r].row \in ActivityRecord
  /\ pc[r] = "activityDelete" => call[r].activity \in ActivityIds

StagesOK == StageRowsOK /\ \A r \in Requests : StageCall(r)

GroupsGrow == \A g \in Groups : groups[g] # NoRow => groups'[g] # NoRow

StageCalls == {"stageSave", "stageDelete", "activityNew", "activitySave", "activityDelete"}

LEMMA StagesKept ==
  ASSUME StagesOK, NEW r \in Requests, StageRowsOK', StageCall(r)', GroupsGrow,
         \A q \in Requests \ {r} : pc'[q] \in StageCalls => Same(q)
  PROVE  StagesOK'
<1>1. ASSUME NEW q \in Requests, q # r
      PROVE  StageCall(q)'
  <2>1. CASE pc'[q] \in StageCalls
    <3>1. pc'[q] = pc[q] /\ call'[q] = call[q]
      BY <1>1, <2>1 DEF Same
    <3>2. pc[q] = "stageSave" => call[q].row.group \in Groups
      BY DEF StagesOK, StageCall, StageRecord
    <3>3. QED  BY <3>1, <3>2 DEF StagesOK, StageCall, GroupsGrow
  <2>2. CASE pc'[q] \notin StageCalls
    BY <2>2 DEF StageCall, StageCalls
  <2>3. QED  BY <2>1, <2>2
<1>2. QED  BY <1>1 DEF StagesOK

LEMMA StageRowsStay ==
  ASSUME StageRowsOK, UNCHANGED stageRows, GroupsGrow
  PROVE  StageRowsOK'
<1>1. UNCHANGED <<stages, activities, done>>
  BY DEF stageRows
<1>2. \A s \in StageIds : stages[s] # NoRow => stages[s].group \in Groups
  BY DEF StageRowsOK, StageRecord
<1>3. QED  BY <1>1, <1>2 DEF StageRowsOK, GroupsGrow

LEMMA MayChangeStage ==
  ASSUME StageRowsOK, NEW c, NEW s \in StageIds, MayChange(c, s)
  PROVE  stages[s] # NoRow /\ stages[s] \in StageRecord /\ groups[stages[s].group] # NoRow
  BY DEF MayChange, StageRowsOK

LEMMA ReorderedStages ==
  ASSUME StageRowsOK, NEW r \in Requests, ReorderStages(r)
  PROVE  StageRowsOK'
<1>1. PICK g \in Groups, list \in Orders :
        stages' = [s \in StageIds |->
         IF stages[s] # NoRow /\ stages[s].group = g /\ \E i \in DOMAIN list : list[i] = s
         THEN [stages[s] EXCEPT !.order = (CHOOSE i \in DOMAIN list :
                 list[i] = s /\ \A j \in DOMAIN list : list[j] = s => j <= i) - 1]
         ELSE stages[s]]
  BY DEF ReorderStages
<1>2. UNCHANGED <<groups, activities, done>>
  BY DEF ReorderStages, groupRows
<1>3. list \in Seq(StageIds)
  BY StagesAssumption
<1>4. ASSUME NEW s \in StageIds, \E i \in DOMAIN list : list[i] = s
      PROVE  (CHOOSE i \in DOMAIN list :
                list[i] = s /\ \A j \in DOMAIN list : list[j] = s => j <= i) - 1 \in Nat
  <2> DEFINE V == {i \in DOMAIN list : list[i] = s}
  <2>1. Len(list) \in Nat /\ DOMAIN list = 1..Len(list)
    BY <1>3
  <2>2. V \in SUBSET (0..Len(list)) /\ V # {}
    BY <1>4, <2>1
  <2>3. PICK m \in V : \A j \in V : j <= m
    BY <2>1, <2>2, BoundedMax
  <2>4. \E i \in DOMAIN list : list[i] = s /\ \A j \in DOMAIN list : list[j] = s => j <= i
    BY <2>3
  <2>5. (CHOOSE i \in DOMAIN list :
           list[i] = s /\ \A j \in DOMAIN list : list[j] = s => j <= i) \in DOMAIN list
    BY <2>4
  <2>6. QED  BY <2>1, <2>5
<1>5. ASSUME NEW s \in StageIds
      PROVE  /\ stages[s] = NoRow => stages'[s] = NoRow
             /\ stages[s] # NoRow => stages'[s] \in StageRecord /\ stages'[s].group = stages[s].group
  <2>1. stages[s] # NoRow => stages[s] \in StageRecord
    BY DEF StageRowsOK
  <2>2. CASE stages[s] # NoRow /\ stages[s].group = g /\ \E i \in DOMAIN list : list[i] = s
    <3>1. PICK n \in Nat : stages'[s] = [stages[s] EXCEPT !.order = n]
      BY <1>1, <1>4, <2>2
    <3>2. QED  BY <2>1, <2>2, <3>1 DEF StageRecord
  <2>3. CASE ~(stages[s] # NoRow /\ stages[s].group = g /\ \E i \in DOMAIN list : list[i] = s)
    BY <1>1, <2>1, <2>3
  <2>4. QED  BY <2>2, <2>3
<1>6. stages' = [s \in StageIds |-> stages'[s]]
  BY <1>1
<1>7. \A s \in StageIds : stages[s] # NoRow <=> stages'[s] # NoRow
  BY <1>5, RowsAssumption DEF StageRecord
<1>8. stages' \in [StageIds -> StageRecord \cup {NoRow}]
  BY <1>5, <1>6
<1>9. \A s \in StageIds : stages'[s] # NoRow => groups'[stages'[s].group] # NoRow
  BY <1>2, <1>5, <1>7 DEF StageRowsOK
<1>10. \A a \in ActivityIds : activities'[a] # NoRow => stages'[activities'[a].stage] # NoRow
  <2>1. \A a \in ActivityIds : activities[a] # NoRow => activities[a].stage \in StageIds
    BY DEF StageRowsOK, ActivityRecord
  <2>2. QED  BY <1>2, <1>7, <2>1 DEF StageRowsOK
<1>11. QED  BY <1>2, <1>8, <1>9, <1>10 DEF StageRowsOK

LEMMA StageReads ==
  ASSUME CallsOK, StagesOK, DOMAIN groups = Groups, NEW r \in Requests,
         ModifyStageRead(r) \/ RemoveStageFind(r) \/ CreateActivityCheck(r) \/ ModifyActivityRead(r)
  PROVE  StageRowsOK' /\ StageCall(r)'
<1>1. UNCHANGED stageRows /\ UNCHANGED groups
  BY DEF ModifyStageRead, RemoveStageFind, CreateActivityCheck, ModifyActivityRead, groupRows
<1>2. StageRowsOK'
  BY <1>1, StageRowsStay DEF StagesOK, GroupsGrow
<1>3. CASE ModifyStageRead(r)
  <2>0. PICK c \in Callers, s \in StageIds :
          /\ MayChange(c, s)
          /\ \E row \in {[stages[s] EXCEPT !.group = g] : g \in There(groups)}
                \cup {[stages[s] EXCEPT !.order = 0]}
                \cup {[stages[s] EXCEPT !.shown = v] : v \in Visibility} :
               Begin(r, "stageSave", [stage |-> s, row |-> row])
    BY <1>3 DEF ModifyStageRead
  <2>1. PICK row \in {[stages[s] EXCEPT !.group = g] : g \in There(groups)}
                \cup {[stages[s] EXCEPT !.order = 0]}
                \cup {[stages[s] EXCEPT !.shown = v] : v \in Visibility} :
          Begin(r, "stageSave", [stage |-> s, row |-> row])
    BY <2>0
  <2>2. stages[s] \in StageRecord /\ groups[stages[s].group] # NoRow
    BY <2>0, MayChangeStage DEF StagesOK
  <2>3. row \in StageRecord /\ groups[row.group] # NoRow
    <3>1. CASE row \in {[stages[s] EXCEPT !.group = g] : g \in There(groups)}
      <4>1. PICK g \in There(groups) : row = [stages[s] EXCEPT !.group = g]
        BY <3>1
      <4>2. g \in Groups /\ groups[g] # NoRow
        BY DEF There
      <4>3. QED  BY <2>2, <4>1, <4>2 DEF StageRecord
    <3>2. CASE row = [stages[s] EXCEPT !.order = 0]
      BY <2>2, <3>2 DEF StageRecord
    <3>3. CASE row \in {[stages[s] EXCEPT !.shown = v] : v \in Visibility}
      BY <2>2, <3>3 DEF StageRecord
    <3>4. QED  BY <2>1, <3>1, <3>2, <3>3
  <2>4. pc'[r] = "stageSave" /\ call'[r].stage = s /\ call'[r].row = row
    BY <2>1, CallIs
  <2>5. QED  BY <1>1, <1>2, <2>3, <2>4 DEF StageCall
<1>4. CASE RemoveStageFind(r)
  <2>1. PICK s \in StageIds : Begin(r, "stageDelete", [stage |-> s, found |-> Inside(s)])
    BY <1>4 DEF RemoveStageFind
  <2>2. pc'[r] = "stageDelete" /\ call'[r].stage = s /\ call'[r].found = Inside(s)
    BY <2>1, CallIs
  <2>3. QED  BY <1>2, <2>2 DEF StageCall, Inside
<1>5. CASE CreateActivityCheck(r)
  <2>1. PICK a \in ActivityIds, s \in StageIds :
          Begin(r, "activityNew", [activity |-> a, row |-> [stage |-> s, shown |-> TRUE]])
    BY <1>5 DEF CreateActivityCheck
  <2>2. pc'[r] = "activityNew" /\ call'[r] = [activity |-> a, row |-> [stage |-> s, shown |-> TRUE]]
    BY <2>1, CallIs
  <2>3. QED  BY <1>2, <2>2 DEF StageCall, ActivityRecord
<1>6. CASE ModifyActivityRead(r)
  <2>0. PICK c \in Callers, a \in There(activities) :
          \E row \in {[activities[a] EXCEPT !.stage = s] : s \in {x \in StageIds : MayChange(c, x)}}
                \cup {[activities[a] EXCEPT !.shown = v] : v \in BOOLEAN} :
            Begin(r, "activitySave", [activity |-> a, row |-> row])
    BY <1>6 DEF ModifyActivityRead
  <2>1. PICK row \in {[activities[a] EXCEPT !.stage = s] : s \in {x \in StageIds : MayChange(c, x)}}
                \cup {[activities[a] EXCEPT !.shown = v] : v \in BOOLEAN} :
          Begin(r, "activitySave", [activity |-> a, row |-> row])
    BY <2>0
  <2>2. a \in ActivityIds /\ activities[a] \in ActivityRecord
    BY DEF There, StagesOK, StageRowsOK
  <2>3. row \in ActivityRecord
    BY <2>1, <2>2 DEF ActivityRecord
  <2>4. pc'[r] = "activitySave" /\ call'[r].activity = a /\ call'[r].row = row
    BY <2>1, CallIs
  <2>5. QED  BY <1>2, <2>2, <2>3, <2>4 DEF StageCall
<1>7. QED  BY <1>3, <1>4, <1>5, <1>6

LEMMA StageWrites ==
  ASSUME CallsOK, StagesOK, NEW r \in Requests,
         CreateStage(r) \/ ModifyStageSave(r) \/ RemoveStage(r)
  PROVE  StageRowsOK' /\ StageCall(r)'
<1>1. StageCall(r)' /\ UNCHANGED groups
  <2>1. pc'[r] \in {"idle", "notify"}
    BY CallIs DEF CreateStage, ModifyStageSave, RemoveStage
  <2>2. UNCHANGED groups
    BY DEF CreateStage, ModifyStageSave, RemoveStage, groupRows
  <2>3. QED  BY <2>1, <2>2 DEF StageCall
<1>2. ASSUME NEW s \in StageIds, NEW row \in StageRecord, groups[row.group] # NoRow,
             stages' = [stages EXCEPT ![s] = row], UNCHANGED <<activities, done>>
      PROVE  StageRowsOK'
  <2>1. \A x \in StageIds : stages'[x] = IF x = s THEN row ELSE stages[x]
    BY <1>2 DEF StagesOK, StageRowsOK
  <2>2. row # NoRow
    BY RowsAssumption DEF StageRecord
  <2>3. stages' \in [StageIds -> StageRecord \cup {NoRow}]
    BY <1>2 DEF StagesOK, StageRowsOK
  <2>4. \A x \in StageIds : stages'[x] # NoRow => groups'[stages'[x].group] # NoRow
    BY <1>1, <1>2, <2>1 DEF StagesOK, StageRowsOK
  <2>5. \A a \in ActivityIds : activities'[a] # NoRow => stages'[activities'[a].stage] # NoRow
    <3>1. \A a \in ActivityIds : activities[a] # NoRow => activities[a].stage \in StageIds
      BY DEF StagesOK, StageRowsOK, ActivityRecord
    <3>2. QED  BY <1>2, <2>1, <2>2, <3>1 DEF StagesOK, StageRowsOK
  <2>6. QED  BY <1>1, <1>2, <2>3, <2>4, <2>5 DEF StagesOK, StageRowsOK
<1>3. CASE CreateStage(r)
  <2>1. PICK g \in Groups, s \in StageIds, v \in Visibility :
          /\ groups[g] # NoRow
          /\ stages' = [stages EXCEPT ![s] = [group |-> g, order |-> NoRow, shown |-> v]]
    BY <1>3 DEF CreateStage
  <2>2. UNCHANGED <<activities, done>>
    BY <1>3 DEF CreateStage
  <2>3. [group |-> g, order |-> NoRow, shown |-> v] \in StageRecord
    BY DEF StageRecord
  <2>4. QED  BY <1>1, <1>2, <2>1, <2>2, <2>3
<1>4. CASE ModifyStageSave(r)
  BY <1>1, <1>2, <1>4 DEF ModifyStageSave, StagesOK, StageCall
<1>5. CASE RemoveStage(r)
  <2> DEFINE s == call[r].stage
             found == call[r].found
             lost == IF found = {} THEN {} ELSE Inside(s)
  <2>1. s \in StageIds /\ found \subseteq ActivityIds
    BY <1>5 DEF RemoveStage, StagesOK, StageCall
  <2>2. CASE ~StageDeletable(s, found)
    <3>1. UNCHANGED stageRows
      BY <1>5, <2>2 DEF RemoveStage
    <3>2. QED  BY <1>1, <3>1, StageRowsStay DEF StagesOK, GroupsGrow
  <2>3. CASE StageDeletable(s, found)
    <3>1. /\ stages' = [stages EXCEPT ![s] = NoRow]
          /\ activities' = [a \in ActivityIds |-> IF a \in lost THEN NoRow ELSE activities[a]]
          /\ done' = [a \in ActivityIds |-> IF a \in found THEN {} ELSE done[a]]
      BY <1>5, <2>3 DEF RemoveStage
    <3>2. \A a \in Inside(s) : a \in lost
      BY <2>3 DEF StageDeletable
    <3>3. \A a \in lost : done'[a] = {}
      <4>1. ASSUME NEW a \in lost PROVE a \in ActivityIds /\ (a \in found \/ done[a] = {})
        BY <2>3, <4>1 DEF StageDeletable, Inside
      <4>2. QED  BY <3>1, <4>1
    <3>4. \A x \in StageIds : stages'[x] = IF x = s THEN NoRow ELSE stages[x]
      BY <3>1 DEF StagesOK, StageRowsOK
    <3>5. \A a \in ActivityIds : activities'[a] # NoRow =>
            /\ activities'[a] = activities[a] /\ activities[a].stage # s
            /\ activities[a].stage \in StageIds
      BY <3>1, <3>2 DEF Inside, StagesOK, StageRowsOK, ActivityRecord
    <3>6. \A a \in ActivityIds : activities'[a] # NoRow => stages'[activities'[a].stage] # NoRow
      BY <3>4, <3>5 DEF StagesOK, StageRowsOK
    <3>7. /\ stages' \in [StageIds -> StageRecord \cup {NoRow}]
          /\ activities' \in [ActivityIds -> ActivityRecord \cup {NoRow}]
          /\ done' \in [ActivityIds -> SUBSET (Groups \X Students)]
      BY <3>1 DEF StagesOK, StageRowsOK
    <3>8. \A x \in StageIds : stages'[x] # NoRow => groups'[stages'[x].group] # NoRow
      BY <1>1, <3>4 DEF StagesOK, StageRowsOK
    <3>9. \A a \in ActivityIds : done'[a] # {} => activities'[a] # NoRow
      BY <3>1, <3>3 DEF StagesOK, StageRowsOK
    <3>10. \A a \in ActivityIds : \A g \in Groups, m \in Students :
             <<g, m>> \in done'[a] => groups'[g] # NoRow
      <4>1. \A a \in ActivityIds : done'[a] \subseteq done[a]
        BY <3>1
      <4>2. \A a \in ActivityIds : \A g \in Groups, m \in Students :
              <<g, m>> \in done[a] => groups[g] # NoRow
        BY DEF StagesOK, StageRowsOK
      <4>3. ASSUME NEW a \in ActivityIds, NEW g \in Groups, NEW m \in Students, <<g, m>> \in done'[a]
            PROVE  groups'[g] # NoRow
        <5>1. <<g, m>> \in done[a]
          BY <4>1, <4>3
        <5>2. QED  BY <1>1, <4>2, <5>1
      <4>4. QED  BY <4>3
    <3>11. QED  BY <1>1, <3>6, <3>7, <3>8, <3>9, <3>10 DEF StageRowsOK
  <2>4. QED  BY <2>2, <2>3
<1>6. QED  BY <1>1, <1>3, <1>4, <1>5

LEMMA ActivityWrites ==
  ASSUME CallsOK, StagesOK, NEW r \in Requests,
         \/ CreateActivity(r) \/ ModifyActivitySave(r) \/ RemoveCompletions(r) \/ RemoveActivity(r)
  PROVE  StageRowsOK' /\ StageCall(r)'
<1>1. UNCHANGED <<groups, stages>>
  BY DEF CreateActivity, ModifyActivitySave, RemoveCompletions, RemoveActivity, groupRows
<1>2. ASSUME done' = done, NEW a \in ActivityIds, NEW row \in ActivityRecord,
             stages[row.stage] # NoRow, activities' = [activities EXCEPT ![a] = row]
      PROVE  StageRowsOK'
  <2>1. \A x \in ActivityIds : activities'[x] = IF x = a THEN row ELSE activities[x]
    BY <1>2 DEF StagesOK, StageRowsOK
  <2>2. row # NoRow
    BY RowsAssumption DEF ActivityRecord
  <2>3. activities' \in [ActivityIds -> ActivityRecord \cup {NoRow}]
    BY <1>2 DEF StagesOK, StageRowsOK
  <2>4. \A x \in ActivityIds : activities'[x] # NoRow => stages'[activities'[x].stage] # NoRow
    BY <1>1, <1>2, <2>1 DEF StagesOK, StageRowsOK
  <2>5. \A x \in ActivityIds : done'[x] # {} => activities'[x] # NoRow
    BY <1>2, <2>1, <2>2 DEF StagesOK, StageRowsOK
  <2>6. QED  BY <1>1, <1>2, <2>3, <2>4, <2>5 DEF StagesOK, StageRowsOK
<1>3. CASE CreateActivity(r)
  <2>1. /\ call[r].activity \in ActivityIds /\ call[r].row \in ActivityRecord
        /\ pc'[r] = "idle" /\ done' = done
        /\ \/ activities' = activities
           \/ /\ stages[call[r].row.stage] # NoRow
              /\ activities' = [activities EXCEPT ![call[r].activity] = call[r].row]
    BY <1>3, CallIs DEF CreateActivity, StagesOK, StageCall
  <2>2. activities' = activities => StageRowsOK'
    BY <1>1, <2>1, StageRowsStay DEF StagesOK, stageRows, GroupsGrow
  <2>3. QED  BY <1>2, <2>1, <2>2 DEF StageCall
<1>4. CASE ModifyActivitySave(r)
  <2>1. /\ call[r].activity \in ActivityIds /\ call[r].row \in ActivityRecord
        /\ pc'[r] = "idle" /\ done' = done
        /\ \/ activities' = activities
           \/ /\ stages[call[r].row.stage] # NoRow
              /\ activities' = [activities EXCEPT ![call[r].activity] = call[r].row]
    BY <1>4, CallIs DEF ModifyActivitySave, StagesOK, StageCall
  <2>2. activities' = activities => StageRowsOK'
    BY <1>1, <2>1, StageRowsStay DEF StagesOK, stageRows, GroupsGrow
  <2>3. QED  BY <1>2, <2>1, <2>2 DEF StageCall
<1>5. CASE RemoveCompletions(r)
  <2>1. PICK a \in ActivityIds :
          /\ Begin(r, "activityDelete", [activity |-> a])
          /\ done' = [done EXCEPT ![a] = {}] /\ activities' = activities
    BY <1>5 DEF RemoveCompletions
  <2>2. pc'[r] = "activityDelete" /\ call'[r] = [activity |-> a]
    BY <2>1, CallIs
  <2>3. /\ done' \in [ActivityIds -> SUBSET (Groups \X Students)]
        /\ \A x \in ActivityIds : done'[x] \subseteq done[x]
    BY <2>1 DEF StagesOK, StageRowsOK
  <2>4. \A x \in ActivityIds : done'[x] # {} => done[x] # {}
    BY <2>3
  <2>5. \A x \in ActivityIds : \A g \in Groups, m \in Students :
          <<g, m>> \in done'[x] => groups[g] # NoRow
    <3>1. \A x \in ActivityIds : \A g \in Groups, m \in Students :
            <<g, m>> \in done[x] => groups[g] # NoRow
      BY DEF StagesOK, StageRowsOK
    <3>2. QED  BY <2>3, <3>1
  <2>6. QED  BY <1>1, <2>1, <2>2, <2>3, <2>4, <2>5 DEF StagesOK, StageRowsOK, StageCall
<1>6. CASE RemoveActivity(r)
  <2>1. /\ call[r].activity \in ActivityIds /\ pc'[r] = "idle" /\ done' = done
        /\ \/ activities' = activities
           \/ /\ done[call[r].activity] = {}
              /\ activities' = [activities EXCEPT ![call[r].activity] = NoRow]
    BY <1>6, CallIs DEF RemoveActivity, StagesOK, StageCall
  <2>2. activities' = activities => StageRowsOK'
    BY <1>1, <2>1, StageRowsStay DEF StagesOK, stageRows, GroupsGrow
  <2>3. CASE activities' = [activities EXCEPT ![call[r].activity] = NoRow]
    <3>1. \A x \in ActivityIds : activities'[x] = IF x = call[r].activity THEN NoRow ELSE activities[x]
      BY <2>3 DEF StagesOK, StageRowsOK
    <3>2. CASE done[call[r].activity] = {}
      BY <1>1, <2>1, <2>3, <3>1, <3>2 DEF StagesOK, StageRowsOK, StageCall
    <3>3. QED  BY <2>1, <2>2, <3>2 DEF StageCall
  <2>4. QED  BY <2>1, <2>2, <2>3 DEF StageCall
<1>7. QED  BY <1>3, <1>4, <1>5, <1>6

LEMMA CompletedStages ==
  ASSUME CallsOK, StagesOK, NEW r \in Requests, Complete(r),
         \A g \in Groups, s \in Students : stats[g][s] # NoRow => groups[g] # NoRow
  PROVE  StageRowsOK'
<1>1. PICK a \in ActivityIds, s \in Students :
        /\ activities[a] # NoRow /\ stats[stages[activities[a].stage].group][s] # NoRow
        /\ done' = [done EXCEPT ![a] = Toggled(@, <<stages[activities[a].stage].group, s>>)]
  BY DEF Complete
<1> DEFINE g == stages[activities[a].stage].group
<1>2. UNCHANGED <<groups, stages, activities>>
  BY DEF Complete, groupRows
<1>3. g \in Groups
  <2>1. activities[a].stage \in StageIds
    BY <1>1 DEF StagesOK, StageRowsOK, ActivityRecord
  <2>2. QED  BY <1>1, <2>1 DEF StagesOK, StageRowsOK, StageRecord
<1>4. groups[g] # NoRow
  BY <1>1, <1>3
<1>5. \A x \in ActivityIds : done'[x] \subseteq done[x] \/ (x = a /\ done'[x] \subseteq done[x] \cup {<<g, s>>})
  BY <1>1 DEF StagesOK, StageRowsOK, Toggled
<1>6. done' \in [ActivityIds -> SUBSET (Groups \X Students)]
  <2>1. done' = [x \in ActivityIds |-> done'[x]]
    BY <1>1 DEF StagesOK, StageRowsOK
  <2>2. \A x \in ActivityIds : done[x] \subseteq Groups \X Students
    BY DEF StagesOK, StageRowsOK
  <2>3. <<g, s>> \in Groups \X Students
    BY <1>3
  <2>4. \A x \in ActivityIds : done'[x] \subseteq Groups \X Students
    BY <1>5, <2>2, <2>3
  <2>5. QED  BY <2>1, <2>4
<1>7. \A x \in ActivityIds : done'[x] # {} => activities'[x] # NoRow
  <2>1. \A x \in ActivityIds : done[x] # {} => activities[x] # NoRow
    BY DEF StagesOK, StageRowsOK
  <2>2. QED  BY <1>1, <1>2, <1>5, <2>1
<1>8. \A x \in ActivityIds : \A h \in Groups, m \in Students :
        <<h, m>> \in done'[x] => groups'[h] # NoRow
  <2>1. \A x \in ActivityIds : \A h \in Groups, m \in Students :
          <<h, m>> \in done[x] => groups[h] # NoRow
    BY DEF StagesOK, StageRowsOK
  <2>2. QED  BY <1>2, <1>4, <1>5, <2>1
<1>9. QED  BY <1>2, <1>6, <1>7, <1>8 DEF StagesOK, StageRowsOK

(* The new ids are free, and each is the new id of one row.                *)
LEMMA Injected ==
  ASSUME NEW table, NEW D, NEW map, NEW ids, map \in Fn!Injection(D, FreeIds(table, ids))
  PROVE  /\ DOMAIN map = D
         /\ \A y \in D : map[y] \in ids /\ table[map[y]] = NoRow /\ map[y] \notin gone
         /\ \A y \in D : (CHOOSE z \in DOMAIN map : map[z] = map[y]) = y
         /\ \A y, z \in D : map[y] = map[z] => y = z
<1>1. /\ DOMAIN map = D
      /\ \A y \in D : map[y] \in ids /\ table[map[y]] = NoRow /\ map[y] \notin gone
      /\ \A y, z \in D : map[y] = map[z] => y = z
  BY DEF Fn!Injection, Fn!IsInjective, FreeIds, Fresh
<1>2. ASSUME NEW y \in D
      PROVE  (CHOOSE z \in DOMAIN map : map[z] = map[y]) = y
  BY <1>1
<1>3. QED  BY <1>1, <1>2

LEMMA ImportStages ==
  ASSUME NEW r \in Requests, Import(r), StageRowsOK, SettingsOK, TemplatesOK, GroupsGrow
  PROVE  StageRowsOK'
<1>1. PICK c \in Callers, t \in TemplateIds, g \in Groups : \E km, bm, om, pm, sm, am :
        LET d == templates[t].data IN
        /\ templates[t] # NoRow /\ LecturerId(c) # NoRow
        /\ sm \in Fn!Injection(DOMAIN d.orders, FreeIds(stages, StageIds))
        /\ am \in Fn!Injection(DOMAIN d.acts, FreeIds(activities, ActivityIds))
        /\ Copied(g, LecturerId(c), d, km, bm, om, pm, sm, am)
        /\ UNCHANGED done
  BY ImportIs
<1> DEFINE d == templates[t].data
<1>2. PICK km, bm, om, pm, sm, am :
        /\ sm \in Fn!Injection(DOMAIN d.orders, FreeIds(stages, StageIds))
        /\ am \in Fn!Injection(DOMAIN d.acts, FreeIds(activities, ActivityIds))
        /\ Copied(g, LecturerId(c), d, km, bm, om, pm, sm, am)
        /\ UNCHANGED done
  BY <1>1
<1> DEFINE newStage(s) == [group |-> g, order |-> d.orders[s], shown |-> 0]
           newAct(a) == [stage |-> sm[d.acts[a].stage], shown |-> d.acts[a].shown]
<1>3. /\ stages' = New(stages, sm, newStage)
      /\ activities' = New(activities, am, newAct)
      /\ groups' = [groups EXCEPT ![g] =
           [teacher |-> LecturerId(c), lives |-> d.lives, starting |-> d.starting]]
  BY <1>2 DEF Copied
<1>4. /\ \A s \in DOMAIN d.orders : d.orders[s] \in Nat \cup {NoRow}
      /\ \A a \in DOMAIN d.acts : d.acts[a].stage \in DOMAIN d.orders /\ d.acts[a].shown \in BOOLEAN
  <2>1. Snapshot(d)
    BY <1>1 DEF TemplatesOK, Whole
  <2>2. QED  BY <2>1 DEF Snapshot, Held
<1>5. /\ DOMAIN stages' = StageIds
      /\ \A x \in StageIds :
           \/ stages'[x] = stages[x] /\ \A y \in DOMAIN d.orders : sm[y] # x
           \/ \E y \in DOMAIN d.orders : sm[y] = x /\ stages'[x] = newStage(y)
      /\ \A y \in DOMAIN d.orders : /\ sm[y] \in StageIds /\ stages[sm[y]] = NoRow
                                    /\ stages'[sm[y]] = newStage(y)
  <2>1. DOMAIN stages = StageIds
    BY DEF StageRowsOK
  <2>2. /\ DOMAIN sm = DOMAIN d.orders
        /\ \A y \in DOMAIN d.orders :
             /\ sm[y] \in StageIds /\ stages[sm[y]] = NoRow
             /\ (CHOOSE z \in DOMAIN sm : sm[z] = sm[y]) = y
    BY <1>2, Injected
  <2>3. ASSUME NEW y \in DOMAIN d.orders PROVE stages'[sm[y]] = newStage(y)
    BY <1>3, <2>1, <2>2 DEF New
  <2> HIDE DEF newStage
  <2>4. ASSUME NEW x \in StageIds, \A y \in DOMAIN d.orders : sm[y] # x PROVE stages'[x] = stages[x]
    BY <1>3, <2>1, <2>2, <2>4 DEF New
  <2>5. DOMAIN stages' = StageIds
    BY <1>3, <2>1 DEF New
  <2>6. QED  BY <2>2, <2>3, <2>4, <2>5
<1>6. /\ DOMAIN activities' = ActivityIds
      /\ \A x \in ActivityIds :
           \/ activities'[x] = activities[x]
           \/ \E y \in DOMAIN d.acts : activities'[x] = newAct(y) /\ activities[x] = NoRow
  <2>1. DOMAIN activities = ActivityIds
    BY DEF StageRowsOK
  <2>2. /\ DOMAIN am = DOMAIN d.acts
        /\ \A y \in DOMAIN d.acts :
             /\ am[y] \in ActivityIds /\ activities[am[y]] = NoRow
             /\ (CHOOSE z \in DOMAIN am : am[z] = am[y]) = y
    BY <1>2, Injected
  <2>3. ASSUME NEW y \in DOMAIN d.acts PROVE activities'[am[y]] = newAct(y)
    BY <1>3, <2>1, <2>2 DEF New
  <2> HIDE DEF newAct
  <2>4. ASSUME NEW x \in ActivityIds, \A y \in DOMAIN d.acts : am[y] # x
        PROVE  activities'[x] = activities[x]
    BY <1>3, <2>1, <2>2, <2>4 DEF New
  <2>5. DOMAIN activities' = ActivityIds
    BY <1>3, <2>1 DEF New
  <2>6. QED  BY <2>2, <2>3, <2>4, <2>5
<1>7. groups'[g] # NoRow
  <2>1. [teacher |-> LecturerId(c), lives |-> templates[t].data.lives,
         starting |-> templates[t].data.starting] \in GroupRow
    BY <1>1, ImportedGroup
  <2>2. QED  BY <1>3, <2>1, RowsAssumption DEF SettingsOK
<1>8. \A y \in DOMAIN d.orders : newStage(y) \in StageRecord /\ newStage(y) # NoRow
  BY <1>4, RowsAssumption DEF StageRecord, Visibility
<1>9. \A y \in DOMAIN d.acts : newAct(y) \in ActivityRecord /\ stages'[newAct(y).stage] # NoRow
  <2>1. ASSUME NEW y \in DOMAIN d.acts
        PROVE  /\ newAct(y).stage = sm[d.acts[y].stage] /\ newAct(y) \in ActivityRecord
               /\ stages'[sm[d.acts[y].stage]] = newStage(d.acts[y].stage)
    BY <1>4, <1>5 DEF ActivityRecord
  <2> HIDE DEF newAct, newStage
  <2>2. QED  BY <1>4, <1>8, <2>1
<1>10. stages' = [x \in StageIds |-> stages'[x]] /\ activities' = [x \in ActivityIds |-> activities'[x]]
  BY <1>3, <1>5, <1>6 DEF New
<1>11. \A x \in StageIds : /\ stages'[x] \in StageRecord \cup {NoRow}
                           /\ stages'[x] # NoRow => groups'[stages'[x].group] # NoRow
                           /\ stages[x] # NoRow => stages'[x] = stages[x]
  <2>1. \A x \in StageIds : stages[x] \in StageRecord \cup {NoRow} /\ (stages[x] # NoRow => groups[stages[x].group] # NoRow)
    BY DEF StageRowsOK
  <2>2. \A x \in StageIds : stages[x] # NoRow => stages[x].group \in Groups
    BY <2>1 DEF StageRecord
  <2> HIDE DEF newStage
  <2>3. \A y \in DOMAIN d.orders : newStage(y).group = g
    BY DEF newStage
  <2>4. QED  BY <1>5, <1>7, <1>8, <2>1, <2>2, <2>3 DEF GroupsGrow
<1>12. \A x \in ActivityIds : /\ activities'[x] \in ActivityRecord \cup {NoRow}
                              /\ activities'[x] # NoRow => stages'[activities'[x].stage] # NoRow
                              /\ activities[x] # NoRow => activities'[x] = activities[x]
  <2>1. \A x \in ActivityIds :
          /\ activities[x] \in ActivityRecord \cup {NoRow}
          /\ activities[x] # NoRow => stages[activities[x].stage] # NoRow /\ activities[x].stage \in StageIds
    BY DEF StageRowsOK, ActivityRecord
  <2> HIDE DEF newAct
  <2>2. QED  BY <1>6, <1>9, <1>11, <2>1
<1>13. \A x \in ActivityIds : done'[x] # {} => activities'[x] # NoRow
  <2>1. \A x \in ActivityIds : done[x] # {} => activities[x] # NoRow
    BY DEF StageRowsOK
  <2>2. QED  BY <1>2, <1>12, <2>1
<1>14. done' \in [ActivityIds -> SUBSET (Groups \X Students)]
  BY <1>2 DEF StageRowsOK
<1>15. \A a \in ActivityIds : \A h \in Groups, s \in Students :
         <<h, s>> \in done'[a] => groups'[h] # NoRow
  BY <1>2 DEF StageRowsOK, GroupsGrow
<1>16. stages' \in [StageIds -> StageRecord \cup {NoRow}]
  BY <1>10, <1>11
<1>17. activities' \in [ActivityIds -> ActivityRecord \cup {NoRow}]
  BY <1>10, <1>12
<1>18. QED  BY <1>11, <1>12, <1>13, <1>14, <1>15, <1>16, <1>17 DEF StageRowsOK

LEMMA StagesNext ==
  ASSUME CallsOK, SettingsOK, TemplatesOK, StagesOK, [Next]_pageVars,
         \A g \in Groups, s \in Students : stats[g][s] # NoRow => groups[g] # NoRow
  PROVE  StagesOK'
<1>1. GroupsGrow /\ DOMAIN groups = Groups
  BY GroupsStay DEF GroupsGrow, SettingsOK
<1>2. ASSUME NEW r \in Requests, CallStep(r)
      PROVE  StagesOK'
  <2>1. ASSUME UNCHANGED stageRows, NEW S, Moved(r, S), S \cap StageCalls = {}
        PROVE  StagesOK'
    <3>1. StageRowsOK'
      BY <1>1, <2>1, StageRowsStay DEF StagesOK
    <3>2. StageCall(r)'
      BY <2>1 DEF StageCall, StageCalls, Moved
    <3>3. \A q \in Requests \ {r} : pc'[q] \in StageCalls => Same(q)
      BY <2>1 DEF Moved, Same, StageCalls, Drafting, Writing
    <3>4. QED  BY <1>1, <3>1, <3>2, <3>3, StagesKept
  <2>2. CASE GroupStep(r) /\ UNCHANGED stageRows
    BY <2>1, <2>2, GroupMoves DEF GroupSteps, StageCalls
  <2>3. CASE RankStep(r) /\ UNCHANGED stageRows
    BY <2>1, <2>3, RankMoves DEF RankSteps, StageCalls
  <2>4. CASE StageStep(r)
    <3>1. \A q \in Requests \ {r} : Same(q)
      BY <2>4, StageMoves
    <3>2. StageRowsOK' /\ StageCall(r)'
      <4>1. CASE ReorderStages(r)
        <5>1. pc[r] = "idle" /\ Same(r)
          BY <4>1, CallIs DEF ReorderStages
        <5>2. StageCall(r)'
          BY <5>1 DEF StageCall, Same
        <5>3. QED  BY <4>1, <5>2, ReorderedStages DEF StagesOK
      <4>2. CASE Complete(r)
        <5>1. pc[r] = "idle" /\ Same(r)
          BY <4>2, CallIs DEF Complete
        <5>2. StageCall(r)'
          BY <5>1 DEF StageCall, Same
        <5>3. QED  BY <4>2, <5>2, CompletedStages
      <4>3. QED
        BY <1>1, <2>4, <4>1, <4>2, StageReads, StageWrites, ActivityWrites DEF StageStep
    <3>3. QED  BY <1>1, <3>1, <3>2, StagesKept
  <2>5. CASE PostStep(r) /\ UNCHANGED stageRows
    BY <2>1, <2>5, PostMoves DEF PostSteps, StageCalls
  <2>6. CASE BacklogStep(r) /\ UNCHANGED stageRows
    BY <2>1, <2>6, BacklogMoves DEF StageCalls
  <2>7. CASE TemplateStep(r) /\ ~Import(r)
    <3>1. UNCHANGED stageRows
      BY <2>7 DEF TemplateStep, OfferCheck, OfferSave, DeleteOffer, ExportRead, ExportSave,
                  TemplateRead, TemplateSave, DeleteTemplate, FavoriteCheck, FavoriteSave,
                  Unfavorite, pageRows
    <3>2. QED  BY <2>1, <2>7, <3>1, TemplateMoves DEF TemplateSteps, StageCalls
  <2>8. CASE Import(r)
    <3>1. StageRowsOK'
      BY <1>1, <2>8, ImportStages DEF StagesOK
    <3>2. pc[r] = "idle" /\ \A q \in Requests : Same(q)
      BY <2>8, CallIs, ImportIs
    <3>3. StageCall(r)'
      BY <3>2 DEF StageCall, Same
    <3>4. QED  BY <1>1, <3>1, <3>2, <3>3, StagesKept
  <2>9. CASE Fail(r) /\ UNCHANGED stageRows
    BY <2>1, <2>9, FailMoves DEF StageCalls
  <2>10. QED
    BY <1>2, <2>2, <2>3, <2>4, <2>5, <2>6, <2>7, <2>8, <2>9 DEF CallStep
<1>3. CASE UNCHANGED <<groups, stageRows, pc, call>>
  <2>1. StageRowsOK'
    BY <1>1, <1>3, StageRowsStay DEF StagesOK
  <2>2. \A q \in Requests : StageCall(q)'
    BY <1>3 DEF StagesOK, StageCall
  <2>3. QED  BY <2>1, <2>2 DEF StagesOK
<1>4. QED
  BY <1>2, <1>3 DEF Next, TimePasses, pageVars, pageRows, calls

-----------------------------------------------------------------------------
(* The ranks and the badges.  The group of a rank is known from the moment *)
(* there is the rank: it is deleted and saved again, but never in another  *)
(* group, and its id is given to no other rank.                            *)
RankRecord == [group : Groups, required : Nat]
BadgeRecord == [group : Groups, published : BOOLEAN]
MemberRecord ==
  [lives : Nat, points : Nat, coins : Nat, rank : RankIds \cup {NoRow}, auto : BOOLEAN]
OfferRecord == [group : Groups, ranks : SUBSET RankIds, badges : SUBSET BadgeIds]

InGroup(g) == g \in Groups /\ groups[g] # NoRow

KnownRank(k, g) ==
  /\ k \in RankIds /\ (ranks[k] # NoRow \/ k \in gone)
  /\ ranks[k] # NoRow => ranks[k].group = g
  /\ \A q \in Requests : pc[q] = "rankSave" /\ call[q].rank = k => call[q].group = g

KnownBadge(b, g) ==
  /\ b \in BadgeIds /\ (badges[b] # NoRow \/ b \in gone)
  /\ badges[b] # NoRow => badges[b].group = g
  /\ \A q \in Requests : pc[q] = "badgeSave" /\ call[q].badge = b => call[q].group = g

RankRowsOK ==
  /\ ranks \in [RankIds -> RankRecord \cup {NoRow}]
  /\ \A k \in RankIds : ranks[k] # NoRow => groups[ranks[k].group] # NoRow

BadgeRowsOK ==
  /\ badges \in [BadgeIds -> BadgeRecord \cup {NoRow}]
  /\ \A b \in BadgeIds : badges[b] # NoRow => groups[badges[b].group] # NoRow

RankCall(r) ==
  /\ pc[r] = "rankSave" =>
       /\ InGroup(call[r].group) /\ KnownRank(call[r].rank, call[r].group)
       /\ call[r].row \in RankRecord /\ call[r].row.group = call[r].group
  /\ pc[r] = "rankDelete" => InGroup(call[r].group) /\ KnownRank(call[r].rank, call[r].group)
  /\ pc[r] = "recalc" => InGroup(call[r].group)

BadgeCall(r) ==
  pc[r] = "badgeSave" =>
    /\ InGroup(call[r].group) /\ KnownBadge(call[r].badge, call[r].group)
    /\ call[r].row \in BadgeRecord /\ call[r].row.group = call[r].group

RanksOK == RankRowsOK /\ \A r \in Requests : RankCall(r)
BadgesOK == BadgeRowsOK /\ \A r \in Requests : BadgeCall(r)

RankCalls == {"rankSave", "rankDelete", "recalc"}
BadgeCalls == {"badgeSave"}

(* How a step of call r may write ranks and go on to save one: what there  *)
(* is stays in its group, what is new has an id of its own.                *)
RankWrites(r) ==
  /\ \A k \in RankIds :
       \/ ranks'[k] = ranks[k] \/ ranks'[k] = NoRow \/ Fresh(ranks, k)
       \/ pc[r] = "rankSave" /\ call[r].rank = k /\ ranks'[k].group = call[r].group
  /\ pc'[r] = "rankSave" =>
       \/ Same(r)
       \/ \E k \in RankIds : /\ call'[r].rank = k /\ ranks[k] # NoRow /\ ranks' = ranks
                             /\ call'[r].group = ranks[k].group

BadgeWrites(r) ==
  /\ \A b \in BadgeIds :
       \/ badges'[b] = badges[b] \/ badges'[b] = NoRow \/ Fresh(badges, b)
       \/ pc[r] = "badgeSave" /\ call[r].badge = b /\ badges'[b].group = call[r].group
  /\ pc'[r] = "badgeSave" =>
       \/ Same(r)
       \/ \E b \in BadgeIds : /\ call'[r].badge = b /\ badges[b] # NoRow /\ badges' = badges
                              /\ call'[r].group = badges[b].group

LEMMA KnownRankStays ==
  ASSUME RankRowsOK, NEW r \in Requests, RankWrites(r), GoneGrows,
         \A q \in Requests \ {r} : pc'[q] = "rankSave" => Same(q),
         NEW k, NEW g, KnownRank(k, g)
  PROVE  KnownRank(k, g)'
<1>1. k \in RankIds /\ (ranks'[k] # NoRow \/ k \in gone')
  BY GoneFacts DEF KnownRank, RankRowsOK
<1>2. ASSUME ranks'[k] # NoRow
      PROVE  ranks'[k].group = g
  BY <1>1, <1>2 DEF RankWrites, KnownRank, Fresh
<1>3. ASSUME NEW q \in Requests, pc'[q] = "rankSave", call'[q].rank = k
      PROVE  call'[q].group = g
  BY <1>3 DEF RankWrites, KnownRank, Same
<1>4. QED  BY <1>1, <1>2, <1>3 DEF KnownRank

LEMMA KnownBadgeStays ==
  ASSUME BadgeRowsOK, NEW r \in Requests, BadgeWrites(r), GoneGrows,
         \A q \in Requests \ {r} : pc'[q] = "badgeSave" => Same(q),
         NEW b, NEW g, KnownBadge(b, g)
  PROVE  KnownBadge(b, g)'
<1>1. b \in BadgeIds /\ (badges'[b] # NoRow \/ b \in gone')
  BY GoneFacts DEF KnownBadge, BadgeRowsOK
<1>2. ASSUME badges'[b] # NoRow
      PROVE  badges'[b].group = g
  BY <1>1, <1>2 DEF BadgeWrites, KnownBadge, Fresh
<1>3. ASSUME NEW q \in Requests, pc'[q] = "badgeSave", call'[q].badge = b
      PROVE  call'[q].group = g
  BY <1>3 DEF BadgeWrites, KnownBadge, Same
<1>4. QED  BY <1>1, <1>2, <1>3 DEF KnownBadge

(* A rank there is, and a badge, are known in their group.                 *)
LEMMA ExistingRank ==
  ASSUME RanksOK, NEW k \in RankIds, ranks[k] # NoRow
  PROVE  KnownRank(k, ranks[k].group) /\ InGroup(ranks[k].group) /\ ranks[k] \in RankRecord
<1>1. \A q \in Requests : pc[q] = "rankSave" /\ call[q].rank = k => call[q].group = ranks[k].group
  BY DEF RanksOK, RankCall, KnownRank
<1>2. ranks[k] \in RankRecord /\ groups[ranks[k].group] # NoRow
  BY DEF RanksOK, RankRowsOK
<1>3. QED  BY <1>1, <1>2 DEF KnownRank, InGroup, RankRecord

LEMMA ExistingBadge ==
  ASSUME BadgesOK, NEW b \in BadgeIds, badges[b] # NoRow
  PROVE  KnownBadge(b, badges[b].group) /\ InGroup(badges[b].group) /\ badges[b] \in BadgeRecord
<1>1. \A q \in Requests : pc[q] = "badgeSave" /\ call[q].badge = b => call[q].group = badges[b].group
  BY DEF BadgesOK, BadgeCall, KnownBadge
<1>2. badges[b] \in BadgeRecord /\ groups[badges[b].group] # NoRow
  BY DEF BadgesOK, BadgeRowsOK
<1>3. QED  BY <1>1, <1>2 DEF KnownBadge, InGroup, BadgeRecord

LEMMA RanksKept ==
  ASSUME RanksOK, NEW r \in Requests, GroupsGrow, RankRowsOK', RankCall(r)',
         \A q \in Requests \ {r} : pc'[q] \in RankCalls => Same(q),
         \A k, g : KnownRank(k, g) => KnownRank(k, g)'
  PROVE  RanksOK'
<1>1. \A g : InGroup(g) => InGroup(g)'
  BY DEF InGroup, GroupsGrow
<1>2. ASSUME NEW q \in Requests, q # r
      PROVE  RankCall(q)'
  <2>1. CASE pc'[q] \in RankCalls
    <3>1. pc'[q] = pc[q] /\ call'[q] = call[q]
      BY <1>2, <2>1 DEF Same
    <3>2. QED  BY <1>1, <3>1 DEF RanksOK, RankCall
  <2>2. CASE pc'[q] \notin RankCalls
    BY <2>2 DEF RankCall, RankCalls
  <2>3. QED  BY <2>1, <2>2
<1>3. QED  BY <1>2 DEF RanksOK

LEMMA BadgesKept ==
  ASSUME BadgesOK, NEW r \in Requests, GroupsGrow, BadgeRowsOK', BadgeCall(r)',
         \A q \in Requests \ {r} : pc'[q] \in BadgeCalls => Same(q),
         \A b, g : KnownBadge(b, g) => KnownBadge(b, g)'
  PROVE  BadgesOK'
<1>1. \A g : InGroup(g) => InGroup(g)'
  BY DEF InGroup, GroupsGrow
<1>2. ASSUME NEW q \in Requests, q # r
      PROVE  BadgeCall(q)'
  <2>1. CASE pc'[q] \in BadgeCalls
    <3>1. pc'[q] = pc[q] /\ call'[q] = call[q]
      BY <1>2, <2>1 DEF Same
    <3>2. QED  BY <1>1, <3>1 DEF BadgesOK, BadgeCall
  <2>2. CASE pc'[q] \notin BadgeCalls
    BY <2>2 DEF BadgeCall, BadgeCalls
  <2>3. QED  BY <2>1, <2>2
<1>3. QED  BY <1>2 DEF BadgesOK

(* A step that writes no rank.                                             *)
LEMMA RanksStay ==
  ASSUME RanksOK, NEW r \in Requests, GroupsGrow, GoneGrows, ranks' = ranks,
         \A q \in Requests \ {r} : pc'[q] \in RankCalls => Same(q),
         pc'[r] \in RankCalls => Same(r)
  PROVE  RanksOK' /\ \A k, g : KnownRank(k, g) => KnownRank(k, g)'
<1>1. RankWrites(r)
  BY DEF RankWrites, RankCalls
<1>2. \A k, g : KnownRank(k, g) => KnownRank(k, g)'
  BY <1>1, KnownRankStays DEF RanksOK, RankCalls
<1>3. RankRowsOK'
  BY DEF RanksOK, RankRowsOK, RankRecord, GroupsGrow
<1>4. RankCall(r)'
  <2>1. CASE pc'[r] \in RankCalls
    <3>1. pc'[r] = pc[r] /\ call'[r] = call[r]
      BY <2>1 DEF Same
    <3>2. \A g : InGroup(g) => InGroup(g)'
      BY DEF InGroup, GroupsGrow
    <3>3. QED  BY <1>2, <3>1, <3>2 DEF RanksOK, RankCall
  <2>2. CASE pc'[r] \notin RankCalls
    BY <2>2 DEF RankCall, RankCalls
  <2>3. QED  BY <2>1, <2>2
<1>5. QED  BY <1>2, <1>3, <1>4, RanksKept

(* Where the calls that give and take badges go.                           *)
LEMMA AwardsGo ==
  ASSUME CallsOK, NEW r \in Requests,
         \/ DeleteBadgeRead(r) \/ RevokeRead(r) \/ RevokeCompare(r) \/ DeleteBadge(r)
         \/ ToggleBadge(r) \/ AwardRead(r) \/ AwardCompare(r) \/ AwardWrite(r)
  PROVE  pc'[r] \in {"idle", "badgeDelete", "revoke", "revokeWrite", "toggle", "award", "awardWrite"}
<1>1. CASE DeleteBadgeRead(r) \/ ToggleBadge(r)
  BY <1>1, CallIs DEF DeleteBadgeRead, ToggleBadge
<1>2. CASE RevokeRead(r) \/ RevokeCompare(r) \/ AwardRead(r) \/ AwardCompare(r)
  BY <1>2, CallIs DEF RevokeRead, RevokeCompare, AwardRead, AwardCompare, Compare
<1>3. CASE DeleteBadge(r) \/ AwardWrite(r)
  BY <1>3, CallIs, OvertakingIs DEF DeleteBadge, AwardWrite
<1>4. QED  BY <1>1, <1>2, <1>3

LEMMA RankStepRanks ==
  ASSUME CallsOK, RanksOK, DOMAIN groups = Groups, NEW r \in Requests, RankStep(r), GoneGrows
  PROVE  RanksOK' /\ \A k, g : KnownRank(k, g) => KnownRank(k, g)'
<1>1. /\ Moved(r, RankSteps) /\ groups' = groups /\ GroupsGrow
      /\ \A q \in Requests \ {r} : pc'[q] \in RankCalls => Same(q)
      /\ \A g : InGroup(g) => InGroup(g)'
  <2>1. Moved(r, RankSteps)
    BY RankMoves
  <2>2. groups' = groups
    BY DEF RankStep, CreateRank, UpdateRankRead, UpdateRankSave, DeleteRankRead, DeleteRank,
           Recalculate, CreateBadge, UpdateBadgeRead, UpdateBadge,
           DeleteBadgeRead, RevokeRead, RevokeCompare, DeleteBadge, ToggleBadge,
           AwardRead, AwardCompare, AwardWrite, Compare
  <2>3. QED  BY <2>1, <2>2 DEF Moved, Drafting, Writing, RankCalls, Same, GroupsGrow, InGroup
<1>2. ASSUME RankWrites(r), RankRowsOK',
             pc'[r] \in {"rankSave", "rankDelete"} => \E k \in RankIds :
               /\ ranks[k] # NoRow /\ call'[r].rank = k /\ call'[r].group = ranks[k].group
               /\ pc'[r] = "rankSave" =>
                    call'[r].row \in RankRecord /\ call'[r].row.group = ranks[k].group,
             pc'[r] = "recalc" => InGroup(call'[r].group)
      PROVE  RanksOK' /\ \A k, g : KnownRank(k, g) => KnownRank(k, g)'
  <2>1. \A k, g : KnownRank(k, g) => KnownRank(k, g)'
    BY <1>1, <1>2, KnownRankStays DEF RanksOK, RankCalls
  <2>2. CASE pc'[r] \in {"rankSave", "rankDelete"}
    <3>1. PICK k \in RankIds :
            /\ ranks[k] # NoRow /\ call'[r].rank = k /\ call'[r].group = ranks[k].group
            /\ pc'[r] = "rankSave" =>
                 call'[r].row \in RankRecord /\ call'[r].row.group = ranks[k].group
      BY <1>2, <2>2
    <3>2. PICK g : g = ranks[k].group
      OBVIOUS
    <3>3. KnownRank(k, g)' /\ InGroup(g)'
      BY <1>1, <2>1, <3>1, <3>2, ExistingRank
    <3>4. RankCall(r)'
      BY <2>2, <3>1, <3>2, <3>3 DEF RankCall, KnownRank, InGroup
    <3>5. QED  BY <1>1, <1>2, <2>1, <3>4, RanksKept
  <2>3. CASE pc'[r] \notin {"rankSave", "rankDelete"}
    <3>1. RankCall(r)'
      BY <1>1, <1>2, <2>3 DEF RankCall, InGroup
    <3>2. QED  BY <1>1, <1>2, <2>1, <3>1, RanksKept
  <2>4. QED  BY <2>2, <2>3
<1>3. CASE CreateRank(r)
  <2>1. PICK g \in Groups, k \in RankIds, n \in Thresholds :
          /\ groups[g] # NoRow /\ Fresh(ranks, k)
          /\ ranks' = [ranks EXCEPT ![k] = [group |-> g, required |-> n]]
          /\ Outdated(r, g, "recalc", [group |-> g, then |-> "notify"])
    BY <1>3 DEF CreateRank
  <2>2. pc'[r] = "recalc" /\ call'[r] = [group |-> g, then |-> "notify"]
    BY <2>1, OutdatedIs
  <2>3. [group |-> g, required |-> n] \in RankRecord
    BY RanksAssumption DEF RankRecord
  <2>4. RankRowsOK'
    BY <1>1, <2>1, <2>3 DEF RanksOK, RankRowsOK
  <2>5. RankWrites(r)
    BY <2>1, <2>2 DEF RankWrites, RanksOK, RankRowsOK
  <2>6. InGroup(call'[r].group)
    BY <2>1, <2>2 DEF InGroup
  <2>7. QED  BY <1>2, <2>2, <2>4, <2>5, <2>6
<1>4. CASE UpdateRankRead(r)
  <2>1. PICK k, n, row :
          /\ k \in RankIds /\ n \in Thresholds
          /\ row = [ranks[k] EXCEPT !.required = n] /\ ranks[k] # NoRow /\ ranks' = ranks
          /\ Begin(r, "rankSave", [group |-> ranks[k].group, rank |-> k, row |-> row])
    BY <1>4 DEF UpdateRankRead
  <2>2. pc'[r] = "rankSave" /\ call'[r] = [group |-> ranks[k].group, rank |-> k, row |-> row]
    BY <2>1, CallIs
  <2>3. ranks[k] \in RankRecord
    BY <2>1, ExistingRank
  <2>4. row \in RankRecord /\ row.group = ranks[k].group
    BY <2>1, <2>3, RanksAssumption DEF RankRecord
  <2>5. RankWrites(r)
    BY <2>1, <2>2 DEF RankWrites
  <2>6. RankRowsOK'
    BY <1>1, <2>1 DEF RanksOK, RankRowsOK
  <2>7. /\ call'[r].rank = k /\ call'[r].group = ranks[k].group /\ call'[r].row = row
    BY <2>2
  <2>8. k \in RankIds /\ ranks[k] # NoRow
    BY <2>1
  <2>9. QED  BY <1>2, <2>2, <2>4, <2>5, <2>6, <2>7, <2>8
<1>5. CASE UpdateRankSave(r)
  <2>1. /\ pc[r] = "rankSave" /\ ranks' = [ranks EXCEPT ![call[r].rank] = call[r].row]
        /\ Outdated(r, call[r].group, "recalc", [group |-> call[r].group, then |-> "idle"])
    BY <1>5 DEF UpdateRankSave, AfterRankSave
  <2>2. pc'[r] = "recalc" /\ call'[r] = [group |-> call[r].group, then |-> "idle"]
    BY <2>1, OutdatedIs
  <2>3. /\ InGroup(call[r].group) /\ KnownRank(call[r].rank, call[r].group)
        /\ call[r].row \in RankRecord /\ call[r].row.group = call[r].group
    BY <2>1 DEF RanksOK, RankCall
  <2>4. RankRowsOK'
    BY <1>1, <2>1, <2>3 DEF RanksOK, RankRowsOK, InGroup
  <2>5. RankWrites(r)
    BY <2>1, <2>2, <2>3 DEF RankWrites, RanksOK, RankRowsOK, KnownRank
  <2>6. QED  BY <1>2, <2>2, <2>3, <2>4, <2>5
<1>6. CASE DeleteRankRead(r)
  <2>1. PICK k \in RankIds :
          /\ ranks[k] # NoRow /\ ranks' = ranks
          /\ Begin(r, "rankDelete", [group |-> ranks[k].group, rank |-> k])
    BY <1>6 DEF DeleteRankRead
  <2>2. pc'[r] = "rankDelete" /\ call'[r] = [group |-> ranks[k].group, rank |-> k]
    BY <2>1, CallIs
  <2>3. RankWrites(r)
    BY <2>1, <2>2 DEF RankWrites
  <2>4. RankRowsOK'
    BY <1>1, <2>1 DEF RanksOK, RankRowsOK
  <2>5. QED  BY <1>2, <2>1, <2>2, <2>3, <2>4
<1>7. CASE DeleteRank(r)
  <2>1. /\ pc[r] = "rankDelete" /\ ranks' = [ranks EXCEPT ![call[r].rank] = NoRow]
        /\ Outdated(r, call[r].group, "recalc", [group |-> call[r].group, then |-> "idle"])
    BY <1>7 DEF DeleteRank
  <2>2. pc'[r] = "recalc" /\ call'[r] = [group |-> call[r].group, then |-> "idle"]
    BY <2>1, OutdatedIs
  <2>3. InGroup(call[r].group)
    BY <2>1 DEF RanksOK, RankCall
  <2>4. RankRowsOK'
    BY <1>1, <2>1 DEF RanksOK, RankRowsOK
  <2>5. RankWrites(r)
    BY <2>1, <2>2 DEF RankWrites, RanksOK, RankRowsOK
  <2>6. QED  BY <1>2, <2>2, <2>3, <2>4, <2>5
<1>8. CASE ~(\/ CreateRank(r) \/ UpdateRankRead(r) \/ UpdateRankSave(r) \/ DeleteRankRead(r)
             \/ DeleteRank(r))
  <2>1. ranks' = ranks
    BY <1>8 DEF RankStep, Recalculate, CreateBadge, UpdateBadgeRead, UpdateBadge,
                DeleteBadgeRead, RevokeRead, RevokeCompare, DeleteBadge, ToggleBadge,
                AwardRead, AwardCompare, AwardWrite, Compare
  <2>2. pc'[r] \notin RankCalls
    <3>1. CASE Recalculate(r)
      <4>1. call[r].then \in {"idle", "notify"} /\ pc'[r] = call[r].then
        BY <3>1, OutdatedIs DEF Recalculate, CallsOK
      <4>2. QED  BY <4>1 DEF RankCalls
    <3>2. CASE CreateBadge(r)
      BY <3>2, CallIs DEF CreateBadge, RankCalls
    <3>3. CASE UpdateBadgeRead(r) \/ UpdateBadge(r)
      <4>1. CASE UpdateBadgeRead(r)
        BY <4>1, CallIs DEF UpdateBadgeRead, RankCalls
      <4>2. CASE UpdateBadge(r)
        BY <4>2, CallIs DEF UpdateBadge, RankCalls
      <4>3. QED  BY <3>3, <4>1, <4>2
    <3>4. CASE \/ DeleteBadgeRead(r) \/ RevokeRead(r) \/ RevokeCompare(r) \/ DeleteBadge(r)
               \/ ToggleBadge(r) \/ AwardRead(r) \/ AwardCompare(r) \/ AwardWrite(r)
      BY <3>4, AwardsGo DEF RankCalls
    <3>5. QED  BY <1>8, <3>1, <3>2, <3>3, <3>4 DEF RankStep
  <2>3. QED  BY <1>1, <2>1, <2>2, RanksStay
<1>9. QED  BY <1>3, <1>4, <1>5, <1>6, <1>7, <1>8

LEMMA BadgesStay ==
  ASSUME BadgesOK, NEW r \in Requests, GroupsGrow, GoneGrows, badges' = badges, BadgeRowsOK',
         \A q \in Requests \ {r} : pc'[q] \in BadgeCalls => Same(q),
         pc'[r] \in BadgeCalls => Same(r)
  PROVE  BadgesOK' /\ \A b, g : KnownBadge(b, g) => KnownBadge(b, g)'
<1>1. BadgeWrites(r)
  BY DEF BadgeWrites, BadgeCalls
<1>2. \A b, g : KnownBadge(b, g) => KnownBadge(b, g)'
  BY <1>1, KnownBadgeStays DEF BadgesOK, BadgeCalls
<1>3. BadgeCall(r)'
  <2>1. CASE pc'[r] \in BadgeCalls
    <3>1. pc'[r] = pc[r] /\ call'[r] = call[r]
      BY <2>1 DEF Same
    <3>2. \A g : InGroup(g) => InGroup(g)'
      BY DEF InGroup, GroupsGrow
    <3>3. QED  BY <1>2, <3>1, <3>2 DEF BadgesOK, BadgeCall
  <2>2. CASE pc'[r] \notin BadgeCalls
    BY <2>2 DEF BadgeCall, BadgeCalls
  <2>3. QED  BY <2>1, <2>2
<1>4. QED  BY <1>2, <1>3, BadgesKept

LEMMA BadgeRowsStay ==
  ASSUME BadgeRowsOK, badges' = badges, GroupsGrow
  PROVE  BadgeRowsOK'
<1>1. \A b \in BadgeIds : badges[b] # NoRow => badges[b].group \in Groups
  BY DEF BadgeRowsOK, BadgeRecord
<1>2. QED  BY <1>1 DEF BadgeRowsOK, GroupsGrow

LEMMA BadgeStepBadges ==
  ASSUME CallsOK, BadgesOK, DOMAIN groups = Groups, NEW r \in Requests, RankStep(r), GoneGrows
  PROVE  BadgesOK' /\ \A b, g : KnownBadge(b, g) => KnownBadge(b, g)'
<1>1. /\ groups' = groups /\ GroupsGrow
      /\ \A q \in Requests \ {r} : pc'[q] \in BadgeCalls => Same(q)
      /\ \A g : InGroup(g) => InGroup(g)'
  <2>1. Moved(r, RankSteps)
    BY RankMoves
  <2>2. groups' = groups
    BY DEF RankStep, CreateRank, UpdateRankRead, UpdateRankSave, DeleteRankRead, DeleteRank,
           Recalculate, CreateBadge, UpdateBadgeRead, UpdateBadge,
           DeleteBadgeRead, RevokeRead, RevokeCompare, DeleteBadge, ToggleBadge,
           AwardRead, AwardCompare, AwardWrite, Compare
  <2>3. QED  BY <2>1, <2>2 DEF Moved, Drafting, Writing, BadgeCalls, Same, GroupsGrow, InGroup
<1>2. CASE /\ \/ CreateRank(r) \/ UpdateRankRead(r) \/ UpdateRankSave(r) \/ DeleteRankRead(r)
              \/ DeleteRank(r) \/ Recalculate(r)
  <2>1. UNCHANGED badgeRows
    BY <1>2 DEF CreateRank, UpdateRankRead, UpdateRankSave, DeleteRankRead, DeleteRank,
                Recalculate
  <2>2. pc'[r] \notin BadgeCalls
    <3>1. CASE Recalculate(r)
      <4>1. call[r].then \in {"idle", "notify"} /\ pc'[r] = call[r].then
        BY <3>1, OutdatedIs DEF Recalculate, CallsOK
      <4>2. QED  BY <4>1 DEF BadgeCalls
    <3>2. CASE CreateRank(r) \/ UpdateRankSave(r) \/ DeleteRank(r)
      <4>1. \E g, c : Outdated(r, g, "recalc", c)
        BY <3>2 DEF CreateRank, UpdateRankSave, AfterRankSave, DeleteRank
      <4>2. pc'[r] = "recalc"
        BY <4>1, OutdatedIs
      <4>3. QED  BY <4>2 DEF BadgeCalls
    <3>3. CASE UpdateRankRead(r) \/ DeleteRankRead(r)
      <4>1. \E c : Begin(r, "rankSave", c) \/ Begin(r, "rankDelete", c)
        BY <3>3 DEF UpdateRankRead, DeleteRankRead
      <4>2. pc'[r] \in {"rankSave", "rankDelete"}
        BY <4>1, CallIs
      <4>3. QED  BY <4>2 DEF BadgeCalls
    <3>4. QED  BY <1>2, <3>1, <3>2, <3>3
  <2>3. QED  BY <1>1, <2>1, <2>2, BadgesStay, BadgeRowsStay DEF BadgesOK, badgeRows
<1>3. CASE CreateBadge(r)
  <2>1. PICK g \in Groups, b \in BadgeIds :
          /\ groups[g] # NoRow /\ Fresh(badges, b)
          /\ badges' = [badges EXCEPT ![b] = [group |-> g, published |-> FALSE]]
          /\ Begin(r, "notify", [group |-> g])
    BY <1>3 DEF CreateBadge
  <2>2. pc'[r] = "notify"
    BY <2>1, CallIs
  <2>3. [group |-> g, published |-> FALSE] \in BadgeRecord
    BY DEF BadgeRecord
  <2>4. BadgeRowsOK'
    <3>1. [group |-> g, published |-> FALSE] # NoRow
      BY <2>3, RowsAssumption DEF BadgeRecord
    <3>2. QED  BY <1>1, <2>1, <2>2, <2>3, <3>1 DEF BadgesOK, BadgeRowsOK
  <2>5. BadgeWrites(r)
    BY <2>1, <2>2 DEF BadgeWrites, BadgesOK, BadgeRowsOK
  <2>6. \A x, h : KnownBadge(x, h) => KnownBadge(x, h)'
    BY <1>1, <2>5, KnownBadgeStays DEF BadgesOK, BadgeCalls
  <2>7. BadgeCall(r)'
    BY <2>2 DEF BadgeCall
  <2>8. QED  BY <1>1, <2>4, <2>6, <2>7, BadgesKept
<1>4. CASE UpdateBadgeRead(r)
  <2>1. PICK b, row :
          /\ b \in BadgeIds /\ row = [badges[b] EXCEPT !.published = ~@] /\ badges[b] # NoRow
          /\ Begin(r, "badgeSave", [group |-> badges[b].group, badge |-> b, row |-> row])
          /\ UNCHANGED badgeRows
    BY <1>4 DEF UpdateBadgeRead
  <2>2. /\ pc'[r] = "badgeSave"
        /\ call'[r] = [group |-> badges[b].group, badge |-> b, row |-> row]
    BY <2>1, CallIs
  <2>3. /\ badges[b] \in BadgeRecord /\ KnownBadge(b, badges[b].group) /\ InGroup(badges[b].group)
        /\ b \in BadgeIds /\ badges[b] # NoRow
    BY <2>1, ExistingBadge
  <2>4. row \in BadgeRecord /\ row.group = badges[b].group
    BY <2>1, <2>3 DEF BadgeRecord
  <2>5. /\ call'[r].badge = b /\ call'[r].group = badges[b].group /\ call'[r].row = row
        /\ badges' = badges
    BY <2>1, <2>2 DEF badgeRows
  <2>6. BadgeWrites(r)
    BY <2>3, <2>5 DEF BadgeWrites
  <2>7. \A x, h : KnownBadge(x, h) => KnownBadge(x, h)'
    BY <1>1, <2>6, KnownBadgeStays DEF BadgesOK, BadgeCalls
  <2>8. BadgeRowsOK'
    BY <1>1, <2>5, BadgeRowsStay DEF BadgesOK
  <2>9. BadgeCall(r)'
    <3>1. PICK g : g = badges[b].group
      OBVIOUS
    <3>2. KnownBadge(b, g)' /\ InGroup(g)'
      BY <1>1, <2>3, <2>7, <3>1
    <3>3. QED  BY <2>3, <2>4, <2>5, <3>1, <3>2 DEF BadgeCall, KnownBadge, InGroup
  <2>10. QED  BY <1>1, <2>7, <2>8, <2>9, BadgesKept
<1>5. CASE UpdateBadge(r)
  <2>1. /\ pc[r] = "badgeSave" /\ badges' = [badges EXCEPT ![call[r].badge] = call[r].row]
        /\ Done(r)
    BY <1>5 DEF UpdateBadge
  <2>2. pc'[r] = "idle"
    BY <2>1, CallIs
  <2>3. /\ InGroup(call[r].group) /\ KnownBadge(call[r].badge, call[r].group)
        /\ call[r].row \in BadgeRecord /\ call[r].row.group = call[r].group
        /\ call[r].row # NoRow
    BY <2>1, RowsAssumption DEF BadgesOK, BadgeCall, BadgeRecord
  <2>4. BadgeRowsOK'
    BY <1>1, <2>1, <2>3 DEF BadgesOK, BadgeRowsOK, InGroup
  <2>5. BadgeWrites(r)
    BY <2>1, <2>2, <2>3 DEF BadgeWrites, BadgesOK, BadgeRowsOK, KnownBadge
  <2>6. \A x, h : KnownBadge(x, h) => KnownBadge(x, h)'
    BY <1>1, <2>5, KnownBadgeStays DEF BadgesOK, BadgeCalls
  <2>7. BadgeCall(r)'
    BY <2>2 DEF BadgeCall
  <2>8. QED  BY <1>1, <2>4, <2>6, <2>7, BadgesKept
<1>6. CASE DeleteBadge(r) /\ badges' # badges
  <2>1. badges' = [badges EXCEPT ![call[r].badge] = NoRow]
    BY <1>6 DEF DeleteBadge, badgeRows
  <2>2. pc'[r] \notin BadgeCalls
    BY <1>6, AwardsGo DEF BadgeCalls
  <2>3. BadgeRowsOK'
    BY <1>1, <2>1 DEF BadgesOK, BadgeRowsOK
  <2>4. BadgeWrites(r)
    BY <2>1, <2>2 DEF BadgeWrites, BadgesOK, BadgeRowsOK, BadgeCalls
  <2>5. \A x, h : KnownBadge(x, h) => KnownBadge(x, h)'
    BY <1>1, <2>4, KnownBadgeStays DEF BadgesOK, BadgeCalls
  <2>6. BadgeCall(r)'
    BY <2>2 DEF BadgeCall, BadgeCalls
  <2>7. QED  BY <1>1, <2>3, <2>5, <2>6, BadgesKept
<1>7. CASE /\ \/ DeleteBadgeRead(r) \/ RevokeRead(r) \/ RevokeCompare(r) \/ DeleteBadge(r)
              \/ ToggleBadge(r) \/ AwardRead(r) \/ AwardCompare(r) \/ AwardWrite(r)
           /\ badges' = badges
  <2>1. pc'[r] \notin BadgeCalls
    BY <1>7, AwardsGo DEF BadgeCalls
  <2>2. QED  BY <1>1, <1>7, <2>1, BadgesStay, BadgeRowsStay DEF BadgesOK
<1>8. badges' = badges \/ CreateBadge(r) \/ UpdateBadge(r) \/ DeleteBadge(r)
  BY DEF RankStep, CreateRank, UpdateRankRead, UpdateRankSave, DeleteRankRead, DeleteRank,
         Recalculate, UpdateBadgeRead, DeleteBadgeRead, RevokeRead, RevokeCompare, ToggleBadge,
         AwardRead, AwardCompare, AwardWrite, badgeRows
<1>9. QED  BY <1>2, <1>3, <1>4, <1>5, <1>6, <1>7, <1>8 DEF RankStep

-----------------------------------------------------------------------------
(* The members: the rank of each is one of the group there is.  What the   *)
(* calls in progress are going to write may have a rank that is gone by    *)
(* now, but none of another group.                                         *)
HasRank(g, k) == k # NoRow => ranks[k] # NoRow /\ ranks[k].group = g

DraftRow(g, row) == row \in MemberRecord /\ (row.rank # NoRow => KnownRank(row.rank, g))

MemberRowsOK ==
  /\ stats \in [Groups -> [Students -> MemberRecord \cup {NoRow}]]
  /\ \A g \in Groups, s \in Students : stats[g][s] # NoRow =>
       groups[g] # NoRow /\ HasRank(g, stats[g][s].rank)

Draft(r) ==
  LET c == call[r] IN
  /\ pc[r] = "capRead" => InGroup(c.group) /\ c.sent.lives \in Nat
  /\ pc[r] = "badgeDelete" => InGroup(c.group) /\ IsFiniteSet(DOMAIN c.found)
  /\ pc[r] = "toggle" => InGroup(c.group) /\ c.student \in Members(c.group)
  /\ pc[r] \in Drafting =>
       /\ {"group", "old", "rows"} \subseteq DOMAIN c
       /\ InGroup(c.group) /\ DOMAIN c.rows \subseteq Students
       /\ \A s \in DOMAIN c.rows : DraftRow(c.group, c.rows[s])
  /\ pc[r] \in Drafting \ {"join"} => "seen" \in DOMAIN c /\ DOMAIN c.rows \subseteq Members(c.group)

DraftSteps == Drafting \cup {"capRead", "badgeDelete", "toggle"}

MembersOK == MemberRowsOK /\ \A r \in Requests : Draft(r)

KnownStay ==
  /\ \A k, g : KnownRank(k, g) => KnownRank(k, g)'
  /\ \A b, g : KnownBadge(b, g) => KnownBadge(b, g)'

(* Nobody leaves a group.                                                  *)
MembersGrow == \A g \in Groups : Members(g) \subseteq Members(g)'

LEMMA DraftRowStays ==
  ASSUME KnownStay, NEW g, NEW row, DraftRow(g, row)
  PROVE  DraftRow(g, row)'
  BY DEF DraftRow, KnownStay

LEMMA MarkedOld ==
  ASSUME NEW c, {"group", "old", "rows"} \subseteq DOMAIN c
  PROVE  LET d == [c EXCEPT !.old = TRUE] IN
         /\ DOMAIN d = DOMAIN c /\ d.group = c.group /\ d.rows = c.rows /\ d.old = TRUE
         /\ "seen" \in DOMAIN c => d.seen = c.seen
  OBVIOUS

(* The mark that a draft is out of date changes nothing else of it.        *)
LEMMA DraftStays ==
  ASSUME MembersOK, GroupsGrow, KnownStay, MembersGrow, NEW q \in Requests, pc'[q] = pc[q],
         \/ call'[q] = call[q]
         \/ pc[q] \in Drafting /\ call'[q] = [call[q] EXCEPT !.old = TRUE]
  PROVE  Draft(q)'
<1>1. \A g : InGroup(g) => InGroup(g)' /\ Members(g) \subseteq Members(g)'
  BY DEF InGroup, GroupsGrow, MembersGrow
<1>2. Draft(q)
  BY DEF MembersOK
<1>3. CASE pc[q] \in Drafting
  <2>1. /\ {"group", "old", "rows"} \subseteq DOMAIN call[q]
        /\ InGroup(call[q].group) /\ DOMAIN call[q].rows \subseteq Students
        /\ \A s \in DOMAIN call[q].rows : DraftRow(call[q].group, call[q].rows[s])
        /\ pc[q] # "join" =>
             "seen" \in DOMAIN call[q] /\ DOMAIN call[q].rows \subseteq Members(call[q].group)
    BY <1>2, <1>3 DEF Draft
  <2>2. PICK g, rows, fields : g = call[q].group /\ rows = call[q].rows /\ fields = DOMAIN call[q]
    OBVIOUS
  <2>3. call'[q].group = g /\ call'[q].rows = rows /\ DOMAIN call'[q] = fields
    BY <2>1, <2>2, MarkedOld
  <2>4. /\ InGroup(g)' /\ DOMAIN rows \subseteq Students /\ \A s \in DOMAIN rows : DraftRow(g, rows[s])'
        /\ pc[q] # "join" => DOMAIN rows \subseteq Members(g)'
    BY <1>1, <2>1, <2>2, DraftRowStays
  <2>5. pc'[q] \in Drafting /\ pc'[q] \notin {"capRead", "badgeDelete", "toggle"}
    BY <1>3 DEF Drafting, Writing
  <2>6. QED  BY <2>1, <2>2, <2>3, <2>4, <2>5 DEF Draft, InGroup, DraftRow, KnownRank, Members
<1>4. CASE pc[q] \notin Drafting
  <2>1. call'[q] = call[q] /\ pc'[q] \notin Drafting
    BY <1>4 DEF Drafting, Writing
  <2>2. PICK c : c = call[q]
    OBVIOUS
  <2>3. /\ pc[q] \in {"capRead", "badgeDelete", "toggle"} => InGroup(c.group)'
        /\ pc[q] = "toggle" => c.student \in Members(c.group)'
    BY <1>1, <1>2, <2>2 DEF Draft
  <2>4. QED  BY <1>2, <2>1, <2>2, <2>3 DEF Draft, InGroup, Members
<1>5. QED  BY <1>3, <1>4

LEMMA MembersKept ==
  ASSUME MembersOK, NEW r \in Requests, NEW S, Moved(r, S), GroupsGrow, KnownStay,
         MembersGrow, MemberRowsOK', Draft(r)'
  PROVE  MembersOK'
  BY DraftStays DEF MembersOK, Moved

(* The members of one group are written.                                   *)
LEMMA MembersWritten ==
  ASSUME MemberRowsOK, GroupsGrow, NEW g \in Groups,
         NEW F \in [Students -> MemberRecord \cup {NoRow}], stats' = [stats EXCEPT ![g] = F],
         \A s \in Students : stats[g][s] # NoRow => F[s] # NoRow,
         \A s \in Students : F[s] # NoRow => groups'[g] # NoRow /\ HasRank(g, F[s].rank)',
         \A k \in RankIds : ranks[k] # NoRow /\ ranks[k].group # g =>
           ranks'[k] # NoRow /\ ranks'[k].group = ranks[k].group
  PROVE  MemberRowsOK' /\ MembersGrow
<1>1. stats' \in [Groups -> [Students -> MemberRecord \cup {NoRow}]]
  BY DEF MemberRowsOK
<1>2. \A h \in Groups : h # g => stats'[h] = stats[h]
  BY DEF MemberRowsOK
<1>3. stats'[g] = F
  BY DEF MemberRowsOK
<1>4. ASSUME NEW h \in Groups, NEW s \in Students, h # g, stats[h][s] # NoRow
      PROVE  groups'[h] # NoRow /\ HasRank(h, stats[h][s].rank)'
  <2>1. groups[h] # NoRow /\ HasRank(h, stats[h][s].rank) /\ stats[h][s] \in MemberRecord
    BY <1>4 DEF MemberRowsOK
  <2>2. stats[h][s].rank \in RankIds \cup {NoRow}
    BY <2>1 DEF MemberRecord
  <2>3. HasRank(h, stats[h][s].rank)'
    BY <1>2, <1>4, <2>1, <2>2 DEF HasRank
  <2>4. QED  BY <1>2, <1>4, <2>1, <2>3 DEF GroupsGrow
<1>5. \A h \in Groups, s \in Students : stats'[h][s] # NoRow =>
        groups'[h] # NoRow /\ HasRank(h, stats[h][s].rank)'
  BY <1>2, <1>3, <1>4 DEF HasRank
<1>6. MembersGrow
  BY <1>2, <1>3 DEF MembersGrow, Members
<1>7. QED  BY <1>1, <1>5, <1>6 DEF MemberRowsOK

LEMMA MemberRowsStay ==
  ASSUME MemberRowsOK, GroupsGrow, stats' = stats,
         \A k \in RankIds : ranks[k] # NoRow => ranks'[k] # NoRow /\ ranks'[k].group = ranks[k].group
  PROVE  MemberRowsOK' /\ MembersGrow
<1>1. \A g \in Groups, s \in Students : stats[g][s] # NoRow => stats[g][s].rank \in RankIds \cup {NoRow}
  BY DEF MemberRowsOK, MemberRecord
<1>2. QED  BY <1>1 DEF MemberRowsOK, GroupsGrow, HasRank, MembersGrow, Members

(* calculateRankForPoints: a rank of the group that the points are enough  *)
(* for, and none that they are enough for requires more.                   *)
Best(g, k, n) ==
  /\ k # NoRow => k \in Reached(g, n)
  /\ \A j \in Reached(g, n) : k # NoRow /\ ranks[j].required <= ranks[k].required

LEMMA RankForIsBest ==
  ASSUME RankRowsOK, NEW g, NEW n \in Nat
  PROVE  RankFor(g, n) \in RankIds \cup {NoRow} /\ Best(g, RankFor(g, n), n)
<1> DEFINE best == {k \in Reached(g, n) : \A j \in Reached(g, n) : ranks[j].required <= ranks[k].required}
<1>1. RankFor(g, n) = IF Reached(g, n) = {} THEN NoRow ELSE CHOOSE k \in best : TRUE
  BY DEF RankFor
<1>2. CASE Reached(g, n) = {}
  BY <1>1, <1>2 DEF Best
<1>3. CASE Reached(g, n) # {}
  <2> DEFINE V == {ranks[k].required : k \in Reached(g, n)}
  <2>1. V \in SUBSET (0..n) /\ V # {}
    <3>1. \A k \in Reached(g, n) : ranks[k].required \in 0..n
      BY DEF Reached, RankRowsOK, RankRecord
    <3>2. QED  BY <1>3, <3>1
  <2>2. PICK m \in V : \A j \in V : j <= m
    BY <2>1, BoundedMax
  <2>3. PICK k \in Reached(g, n) : ranks[k].required = m
    BY <2>2
  <2>4. k \in best
    BY <2>2, <2>3
  <2>5. RankFor(g, n) \in best
    BY <1>1, <1>3, <2>4
  <2>6. RankFor(g, n) \in RankIds /\ RankFor(g, n) # NoRow
    BY <2>5, RowsAssumption DEF Reached
  <2>7. QED  BY <2>5, <2>6 DEF Best
<1>4. QED  BY <1>2, <1>3

LEMMA DraftOfBest ==
  ASSUME RanksOK, NEW g, NEW n \in Nat
  PROVE  /\ RankFor(g, n) # NoRow => KnownRank(RankFor(g, n), g)
         /\ RankFor(g, n) \in RankIds \cup {NoRow} /\ HasRank(g, RankFor(g, n))
  BY RankForIsBest, ExistingRank DEF RanksOK, Best, Reached, HasRank

(* What a member has now may be written again later.                       *)
LEMMA MemberIs ==
  ASSUME RanksOK, MembersOK, NEW g \in Groups, NEW s \in Students, stats[g][s] # NoRow
  PROVE  DraftRow(g, stats[g][s]) /\ InGroup(g) /\ stats[g][s] \in MemberRecord
         /\ HasRank(g, stats[g][s].rank)
<1>1. /\ stats[g][s] \in MemberRecord /\ groups[g] # NoRow
      /\ HasRank(g, stats[g][s].rank)
  BY DEF MembersOK, MemberRowsOK
<1>2. stats[g][s].rank # NoRow => KnownRank(stats[g][s].rank, g)
  BY <1>1, ExistingRank DEF HasRank, MemberRecord
<1>3. QED  BY <1>1, <1>2 DEF DraftRow, InGroup

(* A step that writes no member and drafts nothing.                        *)
LEMMA MembersStay ==
  ASSUME MembersOK, NEW r \in Requests, NEW S, Moved(r, S), GroupsGrow, KnownStay, stats' = stats,
         pc'[r] \in DraftSteps => Same(r),
         \A k \in RankIds : ranks[k] # NoRow => ranks'[k] # NoRow /\ ranks'[k].group = ranks[k].group
  PROVE  MembersOK'
<1>1. MemberRowsOK' /\ MembersGrow
  BY MemberRowsStay DEF MembersOK
<1>2. Draft(r)'
  <2>1. CASE pc'[r] \in DraftSteps
    BY <1>1, <2>1, DraftStays DEF Same
  <2>2. CASE pc'[r] \notin DraftSteps
    BY <2>2 DEF Draft, DraftSteps
  <2>3. QED  BY <2>1, <2>2
<1>3. QED  BY <1>1, <1>2, MembersKept

(* A step that drafts rows of the members of a group.                      *)
LEMMA RowsDrafted ==
  ASSUME MembersOK, NEW r \in Requests, NEW S, Moved(r, S), GroupsGrow, KnownStay,
         stats' = stats, ranks' = ranks, NEW g, InGroup(g), NEW rows, NEW step \in Drafting,
         DOMAIN rows \subseteq Students, \A s \in DOMAIN rows : DraftRow(g, rows[s]),
         step # "join" => DOMAIN rows \subseteq Members(g) /\ "seen" \in DOMAIN call'[r],
         pc'[r] = step, {"group", "old", "rows"} \subseteq DOMAIN call'[r],
         call'[r].group = g, call'[r].rows = rows
  PROVE  MembersOK'
<1>1. MemberRowsOK' /\ MembersGrow
  BY MemberRowsStay DEF MembersOK
<1>2. /\ InGroup(g)' /\ \A s \in DOMAIN rows : DraftRow(g, rows[s])'
      /\ step # "join" => DOMAIN rows \subseteq Members(g)'
  BY <1>1, DraftRowStays DEF InGroup, GroupsGrow, MembersGrow
<1>3. step \notin {"capRead", "badgeDelete", "toggle"}
  BY DEF Drafting, Writing
<1>4. Draft(r)'
  BY <1>2, <1>3 DEF Draft, InGroup, DraftRow, KnownRank, Members
<1>5. QED  BY <1>1, <1>4, MembersKept

LEMMA CapReadMembers ==
  ASSUME CallsOK, RanksOK, MembersOK, NEW r \in Requests, CapRead(r), GroupsGrow, KnownStay
  PROVE  MembersOK'
<1> DEFINE g == call[r].group
           L == call[r].sent.lives
           above == {s \in Members(g) : stats[g][s].lives > L}
<1>1. /\ pc[r] = "capRead" /\ InGroup(g) /\ L \in Nat /\ stats' = stats /\ ranks' = ranks
      /\ Moved(r, GroupSteps)
  <2>1. GroupStep(r)
    BY DEF GroupStep
  <2>2. pc[r] = "capRead" /\ stats' = stats /\ ranks' = ranks
    BY DEF CapRead, members
  <2>3. Draft(r)
    BY DEF MembersOK
  <2>4. QED  BY <2>1, <2>2, <2>3, GroupMoves DEF Draft
<1>2. CASE pc'[r] # "capSave"
  <2>1. pc'[r] \notin DraftSteps
    BY <1>2, CallIs DEF CapRead, DraftSteps, Drafting, Writing
  <2>2. QED  BY <1>1, <2>1, MembersStay
<1>3. CASE pc'[r] = "capSave"
  <2>1. PICK rows : rows = [s \in above |-> [stats[g][s] EXCEPT !.lives = L]]
    OBVIOUS
  <2>2. call'[r] = [group |-> g, old |-> FALSE, tell |-> call[r].tell, seen |-> <<>>, rows |-> rows]
    <3>1. ~Done(r)
      BY <1>3, CallIs
    <3>2. Goto(r, IF above = {} THEN "notify" ELSE "capSave",
               [group |-> g, old |-> FALSE, tell |-> call[r].tell, seen |-> <<>>, rows |-> rows])
      BY <2>1, <3>1 DEF CapRead
    <3>3. QED  BY <3>2, CallIs
  <2>3. \A s \in above : /\ s \in Students /\ s \in Members(g)
                        /\ DraftRow(g, stats[g][s]) /\ stats[g][s] \in MemberRecord
    BY <1>1, MemberIs DEF Members, InGroup
  <2>4. \A s \in above : DraftRow(g, rows[s])
    <3>1. \A s \in above : /\ [stats[g][s] EXCEPT !.lives = L] \in MemberRecord
                           /\ [stats[g][s] EXCEPT !.lives = L].rank = stats[g][s].rank
      BY <1>1, <2>3 DEF MemberRecord
    <3>2. QED  BY <2>1, <2>3, <3>1 DEF DraftRow
  <2>5. DOMAIN rows = above
    BY <2>1
  <2>6. PICK h : h = g
    OBVIOUS
  <2>7. /\ {"group", "old", "rows"} \subseteq DOMAIN call'[r] /\ "seen" \in DOMAIN call'[r]
        /\ call'[r].group = h /\ call'[r].rows = rows
    BY <2>2, <2>6
  <2>8. /\ InGroup(h) /\ DOMAIN rows \subseteq Students /\ DOMAIN rows \subseteq Members(h)
        /\ "capSave" \in Drafting /\ \A s \in DOMAIN rows : DraftRow(h, rows[s])
    BY <1>1, <2>3, <2>4, <2>5, <2>6 DEF Drafting
  <2>9. Moved(r, GroupSteps) /\ stats' = stats /\ ranks' = ranks
    BY <1>1
  <2>10. QED
    <3> HIDE DEF g, L, above
    <3>1. QED  BY <1>3, <2>7, <2>8, <2>9, RowsDrafted
<1>4. QED  BY <1>2, <1>3

(* The rows are read again, and the draft stays.                           *)
LEMMA CompareMembers ==
  ASSUME CallsOK, MembersOK, NEW r \in Requests, NEW S, Moved(r, S), GroupsGrow, KnownStay,
         NEW from \in Drafting \ {"join"}, NEW to \in Drafting \ {"join"}, Compare(r, from, to)
  PROVE  MembersOK'
<1>1. pc[r] = from /\ stats' = stats /\ ranks' = ranks
  BY DEF Compare, members
<1>2. PICK seen : pc'[r] = to /\ call'[r] = [call[r] EXCEPT !.seen = seen]
  BY CallIs DEF Compare
<1>3. PICK c : c = call[r]
  OBVIOUS
<1>4. /\ {"group", "old", "rows", "seen"} \subseteq DOMAIN c
      /\ InGroup(c.group) /\ DOMAIN c.rows \subseteq Students /\ DOMAIN c.rows \subseteq Members(c.group)
      /\ \A s \in DOMAIN c.rows : DraftRow(c.group, c.rows[s])
  BY <1>1, <1>3 DEF MembersOK, Draft
<1>5. /\ DOMAIN call'[r] = DOMAIN c /\ call'[r].group = c.group /\ call'[r].rows = c.rows
  BY <1>2, <1>3, <1>4
<1>6. PICK g, rows : g = c.group /\ rows = c.rows
  OBVIOUS
<1>7. QED  BY <1>1, <1>2, <1>4, <1>5, <1>6, RowsDrafted

(* What a save leaves of a row: each column is that of the draft, or the   *)
(* present one if the draft does not differ from what was read again.      *)
LEMMA MergedIs ==
  ASSUME NEW row \in MemberRecord, NEW draft \in MemberRecord, NEW seen
  PROVE  /\ Merged(row, draft, seen) \in MemberRecord
         /\ Merged(row, draft, seen).auto = row.auto
         /\ Merged(row, draft, seen).rank = Differing(draft.rank, seen.rank, row.rank)
         /\ Merged(row, draft, seen).points = Differing(draft.points, seen.points, row.points)
         /\ Merged(row, draft, seen).lives = Differing(draft.lives, seen.lives, row.lives)
<1>1. PICK k, p, l, m :
        /\ k = Differing(draft.rank, seen.rank, row.rank)
        /\ p = Differing(draft.points, seen.points, row.points)
        /\ l = Differing(draft.lives, seen.lives, row.lives)
        /\ m = Differing(draft.coins, seen.coins, row.coins)
  OBVIOUS
<1>2. k \in RankIds \cup {NoRow} /\ p \in Nat /\ l \in Nat /\ m \in Nat
  BY <1>1 DEF Differing, MemberRecord
<1>3. Merged(row, draft, seen) = [row EXCEPT !.lives = l, !.points = p, !.coins = m, !.rank = k]
  BY <1>1 DEF Merged, MemberRecord
<1>4. Merged(row, draft, seen) = [lives |-> l, points |-> p, coins |-> m, rank |-> k, auto |-> row.auto]
  BY <1>3 DEF MemberRecord
<1>5. QED  BY <1>1, <1>2, <1>4 DEF MemberRecord

(* A save writes members there are, and ranks of the group there are.      *)
LEMMA RowsWritten ==
  ASSUME RanksOK, MembersOK, NEW r \in Requests, pc[r] \in Writing, WriteRows(r),
         Writable(call[r].rows, call[r].seen), ranks' = ranks, GroupsGrow
  PROVE  /\ MemberRowsOK' /\ MembersGrow
         /\ \A h \in Groups, s \in Students : stats'[h][s] =
              IF h = call[r].group /\ s \in DOMAIN call[r].rows
              THEN Merged(stats[h][s], call[r].rows[s], call[r].seen[s]) ELSE stats[h][s]
<1>1. PICK g, rows, seen : g = call[r].group /\ rows = call[r].rows /\ seen = call[r].seen
  OBVIOUS
<1>2. PICK F : F = [s \in Students |-> IF s \in DOMAIN rows THEN Merged(stats[g][s], rows[s], seen[s])
                                     ELSE stats[g][s]]
  OBVIOUS
<1>3. stats' = [stats EXCEPT ![g] = F]
  BY <1>1, <1>2 DEF WriteRows
<1>4. /\ InGroup(g) /\ DOMAIN rows \subseteq Members(g)
      /\ \A s \in DOMAIN rows : DraftRow(g, rows[s])
  <2>1. Draft(r) /\ pc[r] \in Drafting \ {"join"}
    BY DEF MembersOK, Writing, Drafting
  <2>2. QED  BY <1>1, <2>1 DEF Draft
<1>5. \A s \in Students : /\ stats[g][s] \in MemberRecord \cup {NoRow}
                          /\ stats[g][s] # NoRow => HasRank(g, stats[g][s].rank)
  BY <1>4 DEF MembersOK, MemberRowsOK, InGroup
<1>6. ASSUME NEW s \in DOMAIN rows
      PROVE  /\ s \in Students /\ F[s] = Merged(stats[g][s], rows[s], seen[s])
             /\ F[s] \in MemberRecord /\ F[s] # NoRow /\ HasRank(g, F[s].rank)
  <2>1. s \in Students /\ stats[g][s] \in MemberRecord /\ DraftRow(g, rows[s])
    BY <1>4, <1>5 DEF Members
  <2>2. F[s] = Merged(stats[g][s], rows[s], seen[s])
    BY <1>2, <2>1
  <2>3. /\ F[s] \in MemberRecord
        /\ F[s].rank = Differing(rows[s].rank, seen[s].rank, stats[g][s].rank)
    BY <2>1, <2>2, MergedIs DEF DraftRow
  <2>4. HasRank(g, F[s].rank)
    <3>1. CASE rows[s].rank = seen[s].rank
      BY <1>4, <1>5, <2>1, <2>3, <3>1 DEF Differing, Members
    <3>2. CASE rows[s].rank # seen[s].rank
      BY <1>1, <2>1, <2>3, <3>2 DEF Differing, Writable, DraftRow, KnownRank, HasRank
    <3>3. QED  BY <3>1, <3>2
  <2>5. QED  BY <2>1, <2>2, <2>3, <2>4, RowsAssumption DEF MemberRecord
<1>7. ASSUME NEW s \in Students, s \notin DOMAIN rows
      PROVE  F[s] = stats[g][s]
  BY <1>2, <1>7
<1>8. F \in [Students -> MemberRecord \cup {NoRow}]
  <2>1. \A s \in Students : F[s] \in MemberRecord \cup {NoRow}
    BY <1>5, <1>6, <1>7
  <2>2. F = [s \in Students |-> F[s]]
    BY <1>2
  <2>3. QED  BY <2>1, <2>2
<1>9. ASSUME NEW s \in Students
      PROVE  /\ stats[g][s] # NoRow => F[s] # NoRow
             /\ F[s] # NoRow => groups'[g] # NoRow /\ HasRank(g, F[s].rank)'
  <2>1. F[s] # NoRow => HasRank(g, F[s].rank)
    BY <1>5, <1>6, <1>7
  <2>2. QED  BY <1>4, <1>6, <1>7, <2>1 DEF HasRank, InGroup, GroupsGrow
<1>10. MemberRowsOK' /\ MembersGrow
  BY <1>3, <1>4, <1>8, <1>9, MembersWritten DEF MembersOK, InGroup
<1>11. \A h \in Groups, s \in Students : stats'[h][s] = IF h = g THEN F[s] ELSE stats[h][s]
  BY <1>3, <1>4 DEF MembersOK, MemberRowsOK, InGroup
<1>12. QED  BY <1>1, <1>6, <1>7, <1>10, <1>11

LEMMA CapWriteMembers ==
  ASSUME CallsOK, RanksOK, MembersOK, NEW r \in Requests, CapWrite(r), GroupsGrow, KnownStay
  PROVE  MembersOK'
<1>1. Moved(r, GroupSteps) /\ ranks' = ranks /\ pc[r] = "capWrite" /\ pc[r] \in Writing
  BY GroupMoves DEF CapWrite, GroupStep, Writing
<1>2. pc'[r] \in {"idle", "notify"} /\ pc'[r] \notin DraftSteps
  BY CallIs, OvertakingIs DEF CapWrite, DraftSteps, Drafting, Writing
<1>3. CASE stats' = stats
  BY <1>1, <1>2, <1>3, MembersStay
<1>4. CASE stats' # stats
  <2>1. WriteRows(r) /\ Writable(call[r].rows, call[r].seen)
    BY <1>4 DEF CapWrite, members
  <2>2. MemberRowsOK' /\ MembersGrow
    BY <1>1, <2>1, RowsWritten
  <2>3. Draft(r)'
    BY <1>2 DEF Draft, DraftSteps
  <2>4. QED  BY <1>1, <2>2, <2>3, MembersKept
<1>5. QED  BY <1>3, <1>4

LEMMA JoinReadMembers ==
  ASSUME CallsOK, SettingsOK, RanksOK, MembersOK, NEW r \in Requests, JoinRead(r), GroupsGrow,
         KnownStay
  PROVE  MembersOK'
<1>1. /\ stats' = stats /\ ranks' = ranks /\ Moved(r, GroupSteps)
  <2>1. GroupStep(r)
    BY DEF GroupStep
  <2>2. QED  BY <2>1, GroupMoves DEF JoinRead, members
<1>2. PICK g, s, lives, row :
        /\ g \in Groups /\ s \in Students
        /\ groups[g] # NoRow
        /\ lives = (IF groups[g].lives # Unlimited /\ groups[g].lives < groups[g].starting
                    THEN groups[g].lives ELSE groups[g].starting)
        /\ row = [lives |-> lives, points |-> 0, coins |-> 0, rank |-> RankFor(g, 0), auto |-> TRUE]
        /\ Begin(r, "join", [group |-> g, old |-> FALSE, rows |-> [x \in {s} |-> row]])
  <2>1. PICK c \in Callers, g \in Groups : ScopedId(c, "student") # NoRow /\ groups[g] # NoRow
          /\ Begin(r, "join", [group |-> g, old |-> FALSE,
               rows |-> [x \in {ScopedId(c, "student")} |->
                         [lives |-> IF groups[g].lives # Unlimited /\ groups[g].lives < groups[g].starting
                                    THEN groups[g].lives ELSE groups[g].starting,
                          points |-> 0, coins |-> 0, rank |-> RankFor(g, 0),
                          auto |-> TRUE]]])
    BY DEF JoinRead
  <2>2. ScopedId(c, "student") \in Students
    BY <2>1, AccountOf
  <2>3. QED  BY <2>1, <2>2
<1>3. lives \in Nat
  <2>1. groups[g] \in GroupRow
    BY <1>2 DEF SettingsOK
  <2>2. QED  BY <1>2, <2>1 DEF GroupRow
<1>4. DraftRow(g, row)
  BY <1>2, <1>3, DraftOfBest DEF DraftRow, MemberRecord
<1>5. PICK rows : rows = [x \in {s} |-> row]
  OBVIOUS
<1>6. /\ pc'[r] = "join" /\ call'[r] = [group |-> g, old |-> FALSE, rows |-> rows]
  BY <1>2, <1>5, CallIs
<1>7. /\ {"group", "old", "rows"} \subseteq DOMAIN call'[r]
      /\ call'[r].group = g /\ call'[r].rows = rows
  BY <1>6
<1>8. /\ DOMAIN rows \subseteq Students /\ \A x \in DOMAIN rows : DraftRow(g, rows[x])
      /\ InGroup(g) /\ "join" \in Drafting
  BY <1>2, <1>4, <1>5 DEF InGroup, Drafting
<1>9. QED  BY <1>1, <1>6, <1>7, <1>8, RowsDrafted

(* One member is written.                                                  *)
LEMMA MemberWritten ==
  ASSUME MemberRowsOK, GroupsGrow, NEW g, InGroup(g), NEW s \in Students, NEW row \in MemberRecord,
         HasRank(g, row.rank), stats' = [stats EXCEPT ![g][s] = row], ranks' = ranks
  PROVE  MemberRowsOK' /\ MembersGrow
<1> DEFINE F == [stats[g] EXCEPT ![s] = row]
<1>1. stats[g] \in [Students -> MemberRecord \cup {NoRow}] /\ g \in Groups
  BY DEF MemberRowsOK, InGroup
<1>2. /\ F \in [Students -> MemberRecord \cup {NoRow}] /\ stats' = [stats EXCEPT ![g] = F]
      /\ \A x \in Students : F[x] = IF x = s THEN row ELSE stats[g][x]
  BY <1>1
<1>3. PICK f : f = F
  OBVIOUS
<1>4. ASSUME NEW x \in Students, f[x] # NoRow PROVE groups'[g] # NoRow /\ HasRank(g, f[x].rank)'
  <2>1. HasRank(g, f[x].rank)
    BY <1>1, <1>2, <1>3, <1>4 DEF MemberRowsOK
  <2>2. QED  BY <1>1, <2>1 DEF HasRank, InGroup, GroupsGrow
<1>5. \A x \in Students : stats[g][x] # NoRow => f[x] # NoRow
  BY <1>2, <1>3, RowsAssumption DEF MemberRecord
<1>6. f \in [Students -> MemberRecord \cup {NoRow}] /\ stats' = [stats EXCEPT ![g] = f]
  BY <1>2, <1>3
<1>7. QED  BY <1>1, <1>4, <1>5, <1>6, MembersWritten

LEMMA GroupStepMembers ==
  ASSUME CallsOK, SettingsOK, RanksOK, MembersOK, NEW r \in Requests, GroupStep(r), GroupsGrow,
         KnownStay
  PROVE  MembersOK'
<1>1. Moved(r, GroupSteps) /\ ranks' = ranks
  BY GroupMoves DEF GroupStep, CreateGroup, ConfigRead, ConfigWrite, CapRead, CapCompare, CapWrite, Compare, JoinRead,
     JoinWrite, Notify
<1>2. CASE CreateGroup(r)
  BY <1>1, <1>2, MembersStay, CallIs DEF CreateGroup, members
<1>3. CASE ConfigRead(r)
  <2>1. pc'[r] = "config" /\ stats' = stats
    BY <1>3, CallIs DEF ConfigRead, members
  <2>2. QED  BY <1>1, <2>1, MembersStay DEF DraftSteps, Drafting, Writing
<1>4. CASE ConfigWrite(r)
  <2>1. /\ stats' = stats
        /\ \/ pc'[r] \in {"idle", "notify"}
           \/ /\ pc'[r] = "capRead" /\ call'[r] = call[r]
              /\ call[r].sent.lives \notin {Keep, Unlimited}
    BY <1>4, CallIs DEF ConfigWrite, members
  <2>2. /\ call[r].group \in Groups /\ groups[call[r].group] # NoRow /\ call[r].sent \in Payloads
        /\ groups[call[r].group] \in GroupRow
    BY <1>4 DEF ConfigWrite, SettingsOK
  <2>3. CASE pc'[r] = "capRead"
    <3>1. call'[r] = call[r] /\ call[r].sent.lives \in Nat
      BY <2>1, <2>2, <2>3, PayloadSettings
    <3>2. Draft(r)'
      BY <2>2, <2>3, <3>1 DEF Draft, InGroup, GroupsGrow, Drafting, Writing
    <3>3. QED  BY <1>1, <2>1, <3>2, MembersKept, MemberRowsStay DEF MembersOK
  <2>4. CASE pc'[r] # "capRead"
    BY <1>1, <2>1, <2>4, MembersStay DEF DraftSteps, Drafting, Writing
  <2>5. QED  BY <2>3, <2>4
<1>5. CASE JoinWrite(r)
  <2>1. pc[r] = "join" /\ pc'[r] = "idle"
    BY <1>5, CallIs DEF JoinWrite
  <2>2. CASE stats' = stats
    BY <1>1, <2>1, <2>2, MembersStay DEF DraftSteps, Drafting, Writing
  <2>3. CASE stats' # stats
    <3>1. PICK s \in DOMAIN call[r].rows :
            /\ stats' = [stats EXCEPT ![call[r].group][s] = call[r].rows[s]]
            /\ call[r].rows[s].rank # NoRow => ranks[call[r].rows[s].rank] # NoRow
      BY <1>5, <2>3 DEF JoinWrite, members
    <3>2. PICK g, row : g = call[r].group /\ row = call[r].rows[s]
      OBVIOUS
    <3>3. InGroup(g) /\ s \in Students /\ DraftRow(g, row)
      BY <2>1, <3>1, <3>2 DEF MembersOK, Draft, Drafting
    <3>4. row \in MemberRecord /\ HasRank(g, row.rank)
      BY <3>1, <3>2, <3>3 DEF DraftRow, HasRank, KnownRank
    <3>5. MemberRowsOK' /\ MembersGrow
      BY <1>1, <3>1, <3>2, <3>3, <3>4, MemberWritten DEF MembersOK
    <3>6. Draft(r)'
      BY <2>1 DEF Draft, Drafting, Writing
    <3>7. QED  BY <1>1, <3>5, <3>6, MembersKept
  <2>4. QED  BY <2>2, <2>3
<1>6. CASE Notify(r)
  <2>1. pc'[r] = "idle" /\ stats' = stats
    BY <1>6, CallIs DEF Notify, members
  <2>2. QED  BY <1>1, <2>1, MembersStay DEF DraftSteps, Drafting, Writing
<1>7. CASE CapCompare(r)
  <2>1. "capSave" \in Drafting \ {"join"} /\ "capWrite" \in Drafting \ {"join"}
    BY DEF Drafting, Writing
  <2>2. QED  BY <1>1, <1>7, <2>1, CompareMembers DEF CapCompare
<1>8. QED
  BY <1>2, <1>3, <1>4, <1>5, <1>6, <1>7, CapReadMembers, CapWriteMembers, JoinReadMembers DEF GroupStep

LEMMA DeleteRankMembers ==
  ASSUME CallsOK, RanksOK, MembersOK, NEW r \in Requests, DeleteRank(r), GroupsGrow, KnownStay
  PROVE  MembersOK'
<1> DEFINE k == call[r].rank
           g == call[r].group
           without(row) == IF row # NoRow /\ row.rank = k THEN [row EXCEPT !.rank = NoRow] ELSE row
           F == [s \in Students |-> without(stats[g][s])]
<1>1. /\ pc[r] = "rankDelete" /\ InGroup(g) /\ KnownRank(k, g)
      /\ ranks' = [ranks EXCEPT ![k] = NoRow] /\ stats' = [stats EXCEPT ![g] = F]
  <2>1. pc[r] = "rankDelete" /\ ranks' = [ranks EXCEPT ![k] = NoRow]
    BY DEF DeleteRank
  <2>2. RankCall(r)
    BY DEF RanksOK
  <2>3. stats' = [stats EXCEPT ![g] = F]
    BY DEF DeleteRank
  <2>4. QED  BY <2>1, <2>2, <2>3 DEF RankCall
<1>2. Moved(r, RankSteps) /\ pc'[r] = "recalc"
  <2>1. RankStep(r)
    BY DEF RankStep
  <2>2. \E c : Outdated(r, g, "recalc", c)
    BY DEF DeleteRank
  <2>3. QED  BY <2>1, <2>2, RankMoves, OutdatedIs
<1>3. \A j \in RankIds : ranks'[j] = IF j = k THEN NoRow ELSE ranks[j]
  BY <1>1 DEF RanksOK, RankRowsOK
<1>4. \A s \in Students : /\ stats[g][s] \in MemberRecord \cup {NoRow}
                          /\ stats[g][s] # NoRow => HasRank(g, stats[g][s].rank)
  BY <1>1 DEF MembersOK, MemberRowsOK, InGroup
<1>5. \A s \in Students : without(stats[g][s]) \in MemberRecord \cup {NoRow}
  BY <1>4 DEF MemberRecord
<1>6. PICK h, f : h = g /\ f = F
  OBVIOUS
<1>7. f \in [Students -> MemberRecord \cup {NoRow}]
  BY <1>5, <1>6
<1>8. ASSUME NEW s \in Students, f[s] # NoRow PROVE groups'[h] # NoRow /\ HasRank(h, f[s].rank)'
  <2>1. stats[g][s] \in MemberRecord /\ f[s] = without(stats[g][s])
    BY <1>4, <1>6, <1>8
  <2>2. CASE stats[g][s].rank = k
    <3>1. f[s].rank = NoRow
      BY <2>1, <2>2, <1>6, <1>8 DEF MemberRecord
    <3>2. QED  BY <1>1, <1>6, <3>1 DEF HasRank, InGroup, GroupsGrow
  <2>3. CASE stats[g][s].rank # k
    <3>1. f[s] = stats[g][s]
      BY <2>1, <2>3
    <3>2. f[s].rank \in RankIds \cup {NoRow} /\ HasRank(h, f[s].rank)
      BY <1>4, <1>6, <1>8, <2>1, <3>1 DEF MemberRecord
    <3>3. QED  BY <1>1, <1>3, <1>6, <2>3, <3>1, <3>2 DEF HasRank, InGroup, GroupsGrow
  <2>4. QED  BY <2>2, <2>3
<1>9. MemberRowsOK' /\ MembersGrow
  <2>1. \A j \in RankIds : ranks[j] # NoRow /\ ranks[j].group # h =>
          ranks'[j] # NoRow /\ ranks'[j].group = ranks[j].group
    BY <1>1, <1>3, <1>6 DEF KnownRank
  <2>2. h \in Groups /\ stats' = [stats EXCEPT ![h] = f]
    BY <1>1, <1>6 DEF InGroup
  <2>3. \A s \in Students : stats[h][s] # NoRow => f[s] # NoRow
    <3>1. \A s \in Students : stats[g][s] # NoRow => without(stats[g][s]) \in MemberRecord
      BY <1>4 DEF MemberRecord
    <3>2. QED  BY <1>6, <3>1, RowsAssumption DEF MemberRecord
  <2>4. QED  BY <1>7, <1>8, <2>1, <2>2, <2>3, MembersWritten DEF MembersOK
<1>10. Draft(r)'
  BY <1>2 DEF Draft, Drafting, Writing
<1>11. QED  BY <1>2, <1>9, <1>10, MembersKept

LEMMA RecalculateMembers ==
  ASSUME CallsOK, RanksOK, MembersOK, NEW r \in Requests, Recalculate(r), GroupsGrow, KnownStay
  PROVE  MembersOK'
<1> DEFINE g == call[r].group
           F == [s \in Students |-> Recalculated(g, stats[g][s])]
<1>1. /\ pc[r] = "recalc" /\ InGroup(g) /\ ranks' = ranks /\ stats' = [stats EXCEPT ![g] = F]
  <2>1. pc[r] = "recalc" /\ ranks' = ranks
    BY DEF Recalculate
  <2>2. RankCall(r)
    BY DEF RanksOK
  <2>3. stats' = [stats EXCEPT ![g] = F]
    BY DEF Recalculate
  <2>4. QED  BY <2>1, <2>2, <2>3 DEF RankCall
<1>2. Moved(r, RankSteps) /\ pc'[r] \in {"idle", "notify"}
  <2>1. RankStep(r)
    BY DEF RankStep
  <2>2. call[r].then \in {"idle", "notify"} /\ \E c : Outdated(r, g, call[r].then, c)
    BY <1>1 DEF Recalculate, CallsOK
  <2>3. QED  BY <2>1, <2>2, RankMoves, OutdatedIs
<1>3. ASSUME NEW s \in Students, stats[g][s] # NoRow
      PROVE  /\ Recalculated(g, stats[g][s]) \in MemberRecord
             /\ HasRank(g, Recalculated(g, stats[g][s]).rank)
  <2>1. stats[g][s] \in MemberRecord /\ HasRank(g, stats[g][s].rank)
    BY <1>1, <1>3 DEF MembersOK, MemberRowsOK, InGroup
  <2>2. /\ RankFor(g, stats[g][s].points) \in RankIds \cup {NoRow}
        /\ HasRank(g, RankFor(g, stats[g][s].points))
    BY <2>1, DraftOfBest DEF MemberRecord
  <2>3. QED  BY <2>1, <2>2 DEF Recalculated, MemberRecord
<1>4. \A s \in Students : stats[g][s] = NoRow => Recalculated(g, stats[g][s]) = NoRow
  BY DEF Recalculated
<1>5. PICK h, f : h = g /\ f = F
  OBVIOUS
<1>6. f \in [Students -> MemberRecord \cup {NoRow}]
  BY <1>3, <1>4, <1>5
<1>7. ASSUME NEW s \in Students, f[s] # NoRow PROVE groups'[h] # NoRow /\ HasRank(h, f[s].rank)'
  <2>1. HasRank(h, f[s].rank)
    BY <1>3, <1>4, <1>5, <1>7
  <2>2. QED  BY <1>1, <1>5, <2>1 DEF HasRank, InGroup, GroupsGrow
<1>8. MemberRowsOK' /\ MembersGrow
  <2>1. h \in Groups /\ stats' = [stats EXCEPT ![h] = f]
    BY <1>1, <1>5 DEF InGroup
  <2>2. \A s \in Students : stats[h][s] # NoRow => f[s] # NoRow
    BY <1>3, <1>5, RowsAssumption DEF MemberRecord
  <2>3. QED  BY <1>1, <1>6, <1>7, <2>1, <2>2, MembersWritten DEF MembersOK
<1>9. Draft(r)'
  BY <1>2 DEF Draft, Drafting, Writing
<1>10. QED  BY <1>2, <1>8, <1>9, MembersKept

(* What badges given and taken leave of a row.                             *)
LEMMA GivenIs ==
  ASSUME RanksOK, NEW g, NEW row \in MemberRecord
  PROVE  /\ Given(g, row) \in MemberRecord /\ DraftRow(g, Given(g, row))
         /\ Given(g, row).points = row.points + Reward
         /\ Given(g, row).rank = RankFor(g, row.points + Reward)
         /\ Given(g, row).auto = row.auto
<1>1. /\ row.lives \in Nat /\ row.points \in Nat /\ row.coins \in Nat /\ row.auto \in BOOLEAN
      /\ row = [lives |-> row.lives, points |-> row.points, coins |-> row.coins,
                rank |-> row.rank, auto |-> row.auto]
  BY DEF MemberRecord
<1>2. PICK n \in Nat, m \in Nat : n = row.points + Reward /\ m = row.coins + Reward
  BY <1>1, RanksAssumption
<1>3. PICK k : k = RankFor(g, row.points + Reward)
  OBVIOUS
<1>4. k \in RankIds \cup {NoRow} /\ (k # NoRow => KnownRank(k, g))
  BY <1>2, <1>3, DraftOfBest
<1>5. Given(g, row) = [row EXCEPT !.points = n, !.coins = m, !.rank = k]
  BY <1>1, <1>2, <1>3 DEF Given
<1>6. Given(g, row) = [lives |-> row.lives, points |-> n, coins |-> m, rank |-> k, auto |-> row.auto]
  BY <1>1, <1>5
<1>7. QED  BY <1>1, <1>2, <1>3, <1>4, <1>6 DEF MemberRecord, DraftRow

LEMMA RevokedIs ==
  ASSUME RanksOK, NEW g, NEW row \in MemberRecord, NEW n \in Nat
  PROVE  /\ Revoked(g, row, n) \in MemberRecord /\ DraftRow(g, Revoked(g, row, n))
         /\ Revoked(g, row, n).points = row.points
         /\ Revoked(g, row, n).rank = RankFor(g, row.points)
         /\ Revoked(g, row, n).auto = row.auto
<1>1. /\ row.lives \in Nat /\ row.points \in Nat /\ row.coins \in Nat /\ row.auto \in BOOLEAN
      /\ row = [lives |-> row.lives, points |-> row.points, coins |-> row.coins,
                rank |-> row.rank, auto |-> row.auto]
  BY DEF MemberRecord
<1>2. PICK lost : lost = n * Reward
  OBVIOUS
<1>3. lost \in Int
  BY <1>2, RanksAssumption
<1>4. PICK m : m = IF row.coins < lost THEN 0 ELSE row.coins - lost
  OBVIOUS
<1>5. m \in Nat
  BY <1>1, <1>3, <1>4
<1>6. PICK k : k = RankFor(g, row.points)
  OBVIOUS
<1>7. k \in RankIds \cup {NoRow} /\ (k # NoRow => KnownRank(k, g))
  BY <1>1, <1>6, DraftOfBest
<1>8. Revoked(g, row, n) = [row EXCEPT !.coins = m, !.rank = k]
  BY <1>1, <1>2, <1>4, <1>6 DEF Revoked
<1>9. Revoked(g, row, n) =
        [lives |-> row.lives, points |-> row.points, coins |-> m, rank |-> k, auto |-> row.auto]
  BY <1>1, <1>8
<1>10. QED  BY <1>1, <1>5, <1>6, <1>7, <1>9 DEF MemberRecord, DraftRow

(* deleteBadge computes the statistics of those it found among the members.*)
BadgesHeld(r, s) == Cardinality({e \in DOMAIN call[r].found : call[r].found[e] = s})

LEMMA RevokeReadIs ==
  ASSUME CallsOK, RanksOK, MembersOK, NEW r \in Requests, RevokeRead(r)
  PROVE  /\ pc'[r] = "revoke" /\ stats' = stats /\ ranks' = ranks
         /\ {"group", "old", "rows", "seen"} \subseteq DOMAIN call'[r]
         /\ call'[r].group = call[r].group /\ InGroup(call[r].group)
         /\ DOMAIN call'[r].rows \subseteq Members(call[r].group)
         /\ \A s \in DOMAIN call'[r].rows :
              /\ BadgesHeld(r, s) \in Nat
              /\ call'[r].rows[s] = Revoked(call[r].group, stats[call[r].group][s], BadgesHeld(r, s))
<1>1. PICK g, found : g = call[r].group /\ found = call[r].found
  OBVIOUS
<1>2. PICK holders : holders = {s \in Members(g) : \E e \in DOMAIN found : found[e] = s}
  OBVIOUS
<1>3. PICK rows : rows = [s \in holders |-> Revoked(g, stats[g][s], BadgesHeld(r, s))]
  OBVIOUS
<1>4. /\ pc[r] = "badgeDelete" /\ stats' = stats /\ ranks' = ranks
      /\ Goto(r, "revoke", [group |-> g, badge |-> call[r].badge, found |-> DOMAIN found,
               old |-> FALSE, seen |-> <<>>, rows |-> rows])
  BY <1>1, <1>2, <1>3 DEF RevokeRead, BadgesHeld, members
<1>5. /\ pc'[r] = "revoke"
      /\ call'[r] = [group |-> g, badge |-> call[r].badge, found |-> DOMAIN found,
                     old |-> FALSE, seen |-> <<>>, rows |-> rows]
  BY <1>4, CallIs
<1>6. InGroup(g) /\ IsFiniteSet(DOMAIN found)
  BY <1>1, <1>4 DEF MembersOK, Draft
<1>7. ASSUME NEW s PROVE BadgesHeld(r, s) \in Nat
  BY <1>1, <1>6, FS_Subset, FS_CardinalityType DEF BadgesHeld
<1>8. DOMAIN rows = holders /\ holders \subseteq Members(g)
  BY <1>2, <1>3
<1>9. /\ {"group", "old", "rows", "seen"} \subseteq DOMAIN call'[r]
      /\ call'[r].group = g /\ call'[r].rows = rows
  BY <1>5
<1>10. QED  BY <1>1, <1>3, <1>4, <1>5, <1>6, <1>7, <1>8, <1>9

LEMMA RevokeReadMembers ==
  ASSUME CallsOK, RanksOK, MembersOK, NEW r \in Requests, RevokeRead(r), GroupsGrow, KnownStay
  PROVE  MembersOK'
<1>1. PICK g, rows : g = call[r].group /\ rows = call'[r].rows
  OBVIOUS
<1>2. /\ pc'[r] = "revoke" /\ stats' = stats /\ ranks' = ranks
      /\ {"group", "old", "rows"} \subseteq DOMAIN call'[r] /\ "seen" \in DOMAIN call'[r]
      /\ call'[r].group = g /\ InGroup(g) /\ DOMAIN rows \subseteq Members(g)
      /\ \A s \in DOMAIN rows : BadgesHeld(r, s) \in Nat /\ rows[s] = Revoked(g, stats[g][s], BadgesHeld(r, s))
  BY <1>1, RevokeReadIs
<1>3. ASSUME NEW s \in DOMAIN rows PROVE s \in Students /\ DraftRow(g, rows[s])
  <2>1. s \in Students /\ stats[g][s] \in MemberRecord
    BY <1>2, MemberIs DEF Members, InGroup
  <2>2. QED  BY <1>2, <2>1, RevokedIs
<1>4. Moved(r, RankSteps) /\ "revoke" \in Drafting
  BY RankMoves DEF RankStep, Drafting
<1>5. QED  BY <1>1, <1>2, <1>3, <1>4, RowsDrafted

(* toggleBadge computes those of one member.                               *)
LEMMA AwardReadIs ==
  ASSUME CallsOK, RanksOK, MembersOK, NEW r \in Requests, AwardRead(r)
  PROVE  /\ pc'[r] = "award" /\ stats' = stats /\ ranks' = ranks
         /\ {"group", "old", "rows", "seen"} \subseteq DOMAIN call'[r]
         /\ call'[r].group = call[r].group /\ InGroup(call[r].group)
         /\ DOMAIN call'[r].rows = {call[r].student} /\ call[r].student \in Members(call[r].group)
         /\ \/ call'[r].rows[call[r].student] =
                  Given(call[r].group, stats[call[r].group][call[r].student])
            \/ call'[r].rows[call[r].student] =
                  Revoked(call[r].group, stats[call[r].group][call[r].student], 1)
<1>1. PICK g, s, e : g = call[r].group /\ s = call[r].student /\ e = call[r].takes
  OBVIOUS
<1>2. PICK new : new = IF e = NoRow THEN Given(g, stats[g][s]) ELSE Revoked(g, stats[g][s], 1)
  OBVIOUS
<1>3. /\ pc[r] = "toggle" /\ stats' = stats /\ ranks' = ranks
      /\ Goto(r, "award", [group |-> g, badge |-> call[r].badge, student |-> s, takes |-> e,
               old |-> FALSE, seen |-> <<>>, rows |-> [x \in {s} |-> new]])
  BY <1>1, <1>2 DEF AwardRead, members
<1>4. /\ pc'[r] = "award"
      /\ call'[r] = [group |-> g, badge |-> call[r].badge, student |-> s, takes |-> e,
                     old |-> FALSE, seen |-> <<>>, rows |-> [x \in {s} |-> new]]
  BY <1>3, CallIs
<1>5. InGroup(g) /\ s \in Members(g)
  BY <1>1, <1>3 DEF MembersOK, Draft
<1>6. PICK rows : rows = [x \in {s} |-> new]
  OBVIOUS
<1>7. DOMAIN rows = {s} /\ rows[s] = new
  BY <1>6
<1>8. /\ {"group", "old", "rows", "seen"} \subseteq DOMAIN call'[r]
      /\ call'[r].group = g /\ call'[r].rows = rows
  BY <1>4, <1>6
<1>9. QED  BY <1>1, <1>2, <1>3, <1>4, <1>5, <1>7, <1>8

LEMMA AwardReadMembers ==
  ASSUME CallsOK, RanksOK, MembersOK, NEW r \in Requests, AwardRead(r), GroupsGrow, KnownStay
  PROVE  MembersOK'
<1>1. PICK g, rows, s : g = call[r].group /\ rows = call'[r].rows /\ s = call[r].student
  OBVIOUS
<1>2. /\ pc'[r] = "award" /\ stats' = stats /\ ranks' = ranks
      /\ {"group", "old", "rows"} \subseteq DOMAIN call'[r] /\ "seen" \in DOMAIN call'[r]
      /\ call'[r].group = g /\ InGroup(g) /\ DOMAIN rows = {s} /\ s \in Members(g)
      /\ rows[s] = Given(g, stats[g][s]) \/ rows[s] = Revoked(g, stats[g][s], 1)
  BY <1>1, AwardReadIs
<1>3. s \in Students /\ stats[g][s] \in MemberRecord
  BY <1>2, MemberIs DEF Members, InGroup
<1>4. DraftRow(g, rows[s])
  BY <1>2, <1>3, GivenIs, RevokedIs
<1>5. Moved(r, RankSteps) /\ "award" \in Drafting
  BY RankMoves DEF RankStep, Drafting
<1>6. DOMAIN rows \subseteq Students /\ DOMAIN rows \subseteq Members(g)
      /\ \A x \in DOMAIN rows : DraftRow(g, rows[x])
  BY <1>2, <1>3, <1>4
<1>7. QED  BY <1>1, <1>2, <1>5, <1>6, RowsDrafted

(* Both of them save.                                                      *)
LEMMA AwardWriteMembers ==
  ASSUME CallsOK, RanksOK, MembersOK, NEW r \in Requests, DeleteBadge(r) \/ AwardWrite(r),
         GroupsGrow, KnownStay
  PROVE  MembersOK'
<1>1. Moved(r, RankSteps) /\ ranks' = ranks /\ pc[r] \in Writing
  BY RankMoves DEF DeleteBadge, AwardWrite, RankStep, Writing
<1>2. pc'[r] \notin DraftSteps
  <2>1. pc'[r] = "idle"
    BY CallIs, OvertakingIs DEF DeleteBadge, AwardWrite
  <2>2. QED  BY <2>1 DEF DraftSteps, Drafting, Writing
<1>3. CASE stats' = stats
  BY <1>1, <1>2, <1>3, MembersStay
<1>4. CASE stats' # stats
  <2>1. WriteRows(r) /\ Writable(call[r].rows, call[r].seen)
    BY <1>4 DEF DeleteBadge, AwardWrite, members
  <2>2. MemberRowsOK' /\ MembersGrow
    BY <1>1, <2>1, RowsWritten
  <2>3. Draft(r)'
    BY <1>2 DEF Draft, DraftSteps
  <2>4. QED  BY <1>1, <2>2, <2>3, MembersKept
<1>5. QED  BY <1>3, <1>4

(* What they find is read without a lock.                                  *)
LEMMA BadgeReadMembers ==
  ASSUME CallsOK, BadgesOK, MembersOK, NEW r \in Requests, DeleteBadgeRead(r) \/ ToggleBadge(r),
         GroupsGrow, KnownStay
  PROVE  MembersOK'
<1>1. Moved(r, RankSteps) /\ stats' = stats /\ ranks' = ranks
  BY RankMoves DEF DeleteBadgeRead, ToggleBadge, RankStep, members
<1>2. MemberRowsOK' /\ MembersGrow
  BY <1>1, MemberRowsStay DEF MembersOK
<1>3. CASE DeleteBadgeRead(r)
  <2>1. PICK b, found :
          /\ b \in BadgeIds
          /\ badges[b] # NoRow /\ found = [e \in EarnedRows(b) |-> earned[e].student]
          /\ Begin(r, "badgeDelete", [group |-> badges[b].group, badge |-> b, found |-> found])
    BY <1>3 DEF DeleteBadgeRead
  <2>2. PICK g : g = badges[b].group
    OBVIOUS
  <2>3. InGroup(g)'
    BY <2>1, <2>2, ExistingBadge DEF InGroup, GroupsGrow
  <2>4. IsFiniteSet(DOMAIN found)
    BY <2>1, RanksAssumption, FS_Subset DEF EarnedRows
  <2>5. pc'[r] = "badgeDelete" /\ call'[r] = [group |-> g, badge |-> b, found |-> found]
    BY <2>1, <2>2, CallIs
  <2>6. call'[r].group = g /\ call'[r].found = found
    BY <2>5
  <2>7. Draft(r)'
    BY <2>3, <2>4, <2>5, <2>6 DEF Draft, InGroup, Drafting, Writing
  <2>8. QED  BY <1>1, <1>2, <2>7, MembersKept
<1>4. CASE ToggleBadge(r)
  <2>1. PICK b, s, e :
          /\ b \in BadgeIds /\ s \in Students
          /\ badges[b] # NoRow /\ stats[badges[b].group][s] # NoRow
          /\ Begin(r, "toggle", [group |-> badges[b].group, badge |-> b, student |-> s, takes |-> e])
    BY <1>4 DEF ToggleBadge
  <2>2. PICK g : g = badges[b].group
    OBVIOUS
  <2>3. InGroup(g)' /\ InGroup(g)
    BY <2>1, <2>2, ExistingBadge DEF InGroup, GroupsGrow
  <2>4. s \in Members(g)'
    BY <1>2, <2>1, <2>2, <2>3 DEF Members, MembersGrow, InGroup
  <2>5. /\ pc'[r] = "toggle"
        /\ call'[r] = [group |-> g, badge |-> b, student |-> s, takes |-> e]
    BY <2>1, <2>2, CallIs
  <2>6. call'[r].group = g /\ call'[r].student = s
    BY <2>5
  <2>7. Draft(r)'
    BY <2>3, <2>4, <2>5, <2>6 DEF Draft, InGroup, Members, Drafting, Writing
  <2>8. QED  BY <1>1, <1>2, <2>7, MembersKept
<1>5. QED  BY <1>3, <1>4

LEMMA RankStepMembers ==
  ASSUME CallsOK, RanksOK, BadgesOK, MembersOK, NEW r \in Requests, RankStep(r), GroupsGrow,
         KnownStay
  PROVE  MembersOK'
<1>1. Moved(r, RankSteps)
  BY RankMoves
<1>2. ASSUME pc'[r] \notin DraftSteps, stats' = stats,
             \A k \in RankIds : ranks[k] # NoRow => ranks'[k] # NoRow /\ ranks'[k].group = ranks[k].group
      PROVE  MembersOK'
  BY <1>1, <1>2, MembersStay
<1>3. CASE CreateRank(r)
  <2>1. PICK g \in Groups, k \in RankIds, n \in Thresholds :
          /\ Fresh(ranks, k) /\ ranks' = [ranks EXCEPT ![k] = [group |-> g, required |-> n]]
          /\ Outdated(r, g, "recalc", [group |-> g, then |-> "notify"])
    BY <1>3 DEF CreateRank
  <2>2. pc'[r] = "recalc"
    BY <2>1, OutdatedIs
  <2>3. \A j \in RankIds : ranks[j] # NoRow => ranks'[j] = ranks[j]
    BY <2>1 DEF Fresh, RanksOK, RankRowsOK
  <2>4. QED  BY <1>2, <1>3, <2>2, <2>3 DEF CreateRank, members, DraftSteps, Drafting, Writing
<1>4. CASE UpdateRankSave(r)
  <2>1. /\ pc[r] = "rankSave" /\ ranks' = [ranks EXCEPT ![call[r].rank] = call[r].row]
        /\ stats' = stats /\ \E c : Outdated(r, call[r].group, "recalc", c)
    BY <1>4 DEF UpdateRankSave, AfterRankSave, members
  <2>2. pc'[r] = "recalc"
    BY <2>1, OutdatedIs
  <2>3. /\ KnownRank(call[r].rank, call[r].group)
        /\ call[r].row \in RankRecord /\ call[r].row.group = call[r].group /\ call[r].row # NoRow
    BY <2>1, RowsAssumption DEF RanksOK, RankCall, RankRecord
  <2>4. \A j \in RankIds : ranks[j] # NoRow => ranks'[j] # NoRow /\ ranks'[j].group = ranks[j].group
    BY <2>1, <2>3 DEF KnownRank, RanksOK, RankRowsOK
  <2>5. QED  BY <1>2, <2>1, <2>2, <2>4 DEF DraftSteps, Drafting, Writing
<1>5. CASE UpdateRankRead(r) \/ DeleteRankRead(r) \/ CreateBadge(r) \/ UpdateBadgeRead(r)
  <2>1. \E step, c : Begin(r, step, c) /\ step \in {"rankSave", "rankDelete", "notify", "badgeSave"}
    BY <1>5 DEF UpdateRankRead, DeleteRankRead, CreateBadge, UpdateBadgeRead
  <2>2. pc'[r] \in {"rankSave", "rankDelete", "notify", "badgeSave"}
    BY <2>1, CallIs
  <2>3. stats' = stats /\ ranks' = ranks
    BY <1>5 DEF UpdateRankRead, DeleteRankRead, CreateBadge, UpdateBadgeRead, members
  <2>4. QED  BY <1>2, <2>2, <2>3 DEF DraftSteps, Drafting, Writing
<1>6. CASE UpdateBadge(r)
  <2>1. pc'[r] = "idle" /\ stats' = stats /\ ranks' = ranks
    BY <1>6, CallIs DEF UpdateBadge, members
  <2>2. QED  BY <1>2, <2>1 DEF DraftSteps, Drafting, Writing
<1>7. CASE RevokeCompare(r) \/ AwardCompare(r)
  <2>1. {"revoke", "revokeWrite", "award", "awardWrite"} \subseteq Drafting \ {"join"}
    BY DEF Drafting, Writing
  <2>2. QED  BY <1>1, <1>7, <2>1, CompareMembers DEF RevokeCompare, AwardCompare
<1>8. QED
  BY <1>3, <1>4, <1>5, <1>6, <1>7, DeleteRankMembers, RecalculateMembers, BadgeReadMembers,
     RevokeReadMembers, AwardReadMembers, AwardWriteMembers DEF RankStep

-----------------------------------------------------------------------------
(* What is for sale: the promotions are for ranks and badges of the group  *)
(* itself, and those a call is going to write are for known ones.          *)
OfferRowsOK ==
  /\ offers \in [OfferIds -> OfferRecord \cup {NoRow}]
  /\ \A o \in OfferIds : offers[o] # NoRow => groups[offers[o].group] # NoRow
  /\ PromotionsInGroup

OfferCall(r) ==
  pc[r] \in {"offerNew", "offerSave"} =>
    /\ call[r].offer \in OfferIds /\ call[r].row \in OfferRecord /\ InGroup(call[r].row.group)
    /\ \A k \in call[r].row.ranks : KnownRank(k, call[r].row.group)
    /\ \A b \in call[r].row.badges : KnownBadge(b, call[r].row.group)

OffersOK == OfferRowsOK /\ \A r \in Requests : OfferCall(r)

(* An import gives rows to a new group only.                               *)
LEMMA ImportRows ==
  ASSUME NEW r \in Requests, Import(r), RankRowsOK, BadgeRowsOK, OfferRowsOK, SettingsOK, TemplatesOK
  PROVE  /\ ranks' = [x \in RankIds |-> ranks'[x]] /\ badges' = [x \in BadgeIds |-> badges'[x]]
         /\ offers' = [x \in OfferIds |-> offers'[x]]
         /\ UNCHANGED <<members, earned, templates, favorites>>
         /\ \E g \in Groups :
              /\ groups[g] = NoRow /\ groups'[g] # NoRow
              /\ \A x \in RankIds :
                   \/ ranks'[x] = ranks[x]
                   \/ Fresh(ranks, x) /\ ranks'[x] \in RankRecord /\ ranks'[x].group = g
              /\ \A x \in BadgeIds :
                   \/ badges'[x] = badges[x]
                   \/ Fresh(badges, x) /\ badges'[x] \in BadgeRecord /\ badges'[x].group = g
              /\ \A x \in OfferIds :
                   \/ offers'[x] = offers[x]
                   \/ /\ offers'[x] \in OfferRecord /\ offers'[x].group = g
                      /\ \A k \in offers'[x].ranks : ranks'[k] # NoRow /\ ranks'[k].group = g
                      /\ \A b \in offers'[x].badges : badges'[b] # NoRow /\ badges'[b].group = g
<1>1. PICK c \in Callers, t \in TemplateIds, g \in Groups : \E km, bm, om, pm, sm, am :
        LET d == templates[t].data IN
        /\ templates[t] # NoRow /\ LecturerId(c) # NoRow /\ Fresh(groups, g)
        /\ km \in Fn!Injection(DOMAIN d.ranks, FreeIds(ranks, RankIds))
        /\ bm \in Fn!Injection(d.badges, FreeIds(badges, BadgeIds))
        /\ om \in Fn!Injection(DOMAIN d.offers, FreeIds(offers, OfferIds))
        /\ Copied(g, LecturerId(c), d, km, bm, om, pm, sm, am)
        /\ UNCHANGED <<members, earned, templates, favorites>>
  BY ImportIs
<1> DEFINE d == templates[t].data
<1>2. PICK km, bm, om, pm, sm, am :
        /\ km \in Fn!Injection(DOMAIN d.ranks, FreeIds(ranks, RankIds))
        /\ bm \in Fn!Injection(d.badges, FreeIds(badges, BadgeIds))
        /\ om \in Fn!Injection(DOMAIN d.offers, FreeIds(offers, OfferIds))
        /\ Copied(g, LecturerId(c), d, km, bm, om, pm, sm, am)
        /\ UNCHANGED <<members, earned, templates, favorites>>
  BY <1>1
<1> DEFINE newRank(k) == [group |-> g, required |-> d.ranks[k]]
           newBadge(b) == [group |-> g, published |-> FALSE]
           newOffer(o) == [group |-> g, ranks |-> NewIds(d.offers[o].ranks, km),
                           badges |-> NewIds(d.offers[o].badges, bm)]
<1>3. /\ ranks' = New(ranks, km, newRank)
      /\ badges' = New(badges, bm, newBadge)
      /\ offers' = New(offers, om, newOffer)
      /\ groups' = [groups EXCEPT ![g] =
           [teacher |-> LecturerId(c), lives |-> d.lives, starting |-> d.starting]]
  BY <1>2 DEF Copied
<1>4. /\ \A k \in DOMAIN d.ranks : d.ranks[k] \in Nat
      /\ d.badges \subseteq BadgeIds
  <2>1. Snapshot(d)
    BY <1>1 DEF TemplatesOK, Whole
  <2>2. QED  BY <2>1 DEF Snapshot, Held
<1>5. /\ DOMAIN ranks = RankIds /\ DOMAIN badges = BadgeIds /\ DOMAIN offers = OfferIds
  BY DEF RankRowsOK, BadgeRowsOK, OfferRowsOK
<1>6. groups[g] = NoRow /\ groups'[g] # NoRow
  <2>1. [teacher |-> LecturerId(c), lives |-> templates[t].data.lives,
         starting |-> templates[t].data.starting] \in GroupRow
    BY <1>1, ImportedGroup
  <2>2. QED  BY <1>1, <1>3, <2>1, RowsAssumption DEF SettingsOK, Fresh
<1>7. /\ DOMAIN km = DOMAIN d.ranks
      /\ \A y \in DOMAIN km :
           /\ km[y] \in RankIds /\ Fresh(ranks, km[y])
           /\ (CHOOSE z \in DOMAIN km : km[z] = km[y]) = y
  BY <1>2, Injected DEF Fresh
<1>8. /\ DOMAIN bm = d.badges
      /\ \A y \in DOMAIN bm :
           /\ bm[y] \in BadgeIds /\ Fresh(badges, bm[y])
           /\ (CHOOSE z \in DOMAIN bm : bm[z] = bm[y]) = y
  BY <1>2, Injected DEF Fresh
<1>9. /\ DOMAIN om = DOMAIN d.offers
      /\ \A y \in DOMAIN om :
           /\ om[y] \in OfferIds
           /\ (CHOOSE z \in DOMAIN om : om[z] = om[y]) = y
  BY <1>2, Injected
<1>10. /\ DOMAIN ranks' = RankIds /\ ranks' = [x \in RankIds |-> ranks'[x]]
       /\ \A y \in DOMAIN km : ranks'[km[y]] = newRank(y)
       /\ \A x \in RankIds : (\A y \in DOMAIN km : km[y] # x) => ranks'[x] = ranks[x]
  <2>1. ASSUME NEW y \in DOMAIN km PROVE ranks'[km[y]] = newRank(y)
    BY <1>3, <1>5, <1>7 DEF New
  <2> HIDE DEF newRank
  <2>2. ASSUME NEW x \in RankIds, \A y \in DOMAIN km : km[y] # x PROVE ranks'[x] = ranks[x]
    BY <1>3, <1>5, <2>2 DEF New
  <2>3. DOMAIN ranks' = RankIds /\ ranks' = [x \in RankIds |-> ranks'[x]]
    BY <1>3, <1>5 DEF New
  <2>4. QED  BY <2>1, <2>2, <2>3
<1>11. /\ DOMAIN badges' = BadgeIds /\ badges' = [x \in BadgeIds |-> badges'[x]]
       /\ \A y \in DOMAIN bm : badges'[bm[y]] = newBadge(y)
       /\ \A x \in BadgeIds : (\A y \in DOMAIN bm : bm[y] # x) => badges'[x] = badges[x]
  <2>1. ASSUME NEW y \in DOMAIN bm PROVE badges'[bm[y]] = newBadge(y)
    BY <1>3, <1>5, <1>8 DEF New
  <2> HIDE DEF newBadge
  <2>2. ASSUME NEW x \in BadgeIds, \A y \in DOMAIN bm : bm[y] # x PROVE badges'[x] = badges[x]
    BY <1>3, <1>5, <2>2 DEF New
  <2>3. DOMAIN badges' = BadgeIds /\ badges' = [x \in BadgeIds |-> badges'[x]]
    BY <1>3, <1>5 DEF New
  <2>4. QED  BY <2>1, <2>2, <2>3
<1>12. /\ offers' = [x \in OfferIds |-> offers'[x]]
       /\ \A y \in DOMAIN om : offers'[om[y]] = newOffer(y)
       /\ \A x \in OfferIds : (\A y \in DOMAIN om : om[y] # x) => offers'[x] = offers[x]
  <2>1. ASSUME NEW y \in DOMAIN om PROVE offers'[om[y]] = newOffer(y)
    BY <1>3, <1>5, <1>9 DEF New
  <2> HIDE DEF newOffer
  <2>2. ASSUME NEW x \in OfferIds, \A y \in DOMAIN om : om[y] # x PROVE offers'[x] = offers[x]
    BY <1>3, <1>5, <2>2 DEF New
  <2>3. offers' = [x \in OfferIds |-> offers'[x]]
    BY <1>3, <1>5 DEF New
  <2>4. QED  BY <2>1, <2>2, <2>3
<1>13. /\ \A y \in DOMAIN km : newRank(y) \in RankRecord /\ newRank(y).group = g /\ newRank(y) # NoRow
       /\ \A y \in DOMAIN bm : newBadge(y) \in BadgeRecord /\ newBadge(y).group = g /\ newBadge(y) # NoRow
  <2>1. ASSUME NEW y \in DOMAIN km PROVE newRank(y) \in RankRecord /\ newRank(y).group = g
    BY <1>4, <1>7, <2>1 DEF RankRecord
  <2>2. ASSUME NEW y \in DOMAIN bm PROVE newBadge(y) \in BadgeRecord /\ newBadge(y).group = g
    BY <2>2 DEF BadgeRecord
  <2>3. NoRow \notin RankRecord /\ NoRow \notin BadgeRecord
    BY RowsAssumption DEF RankRecord, BadgeRecord
  <2> HIDE DEF newRank, newBadge
  <2>4. QED  BY <2>1, <2>2, <2>3
<1>14. \A y \in DOMAIN om :
         /\ newOffer(y) \in OfferRecord /\ newOffer(y).group = g
         /\ \A k \in newOffer(y).ranks : \E z \in DOMAIN km : k = km[z]
         /\ \A b \in newOffer(y).badges : \E z \in DOMAIN bm : b = bm[z]
  <2>1. \A y : NewIds(d.offers[y].ranks, km) \subseteq RankIds /\ NewIds(d.offers[y].badges, bm) \subseteq BadgeIds
    BY <1>7, <1>8 DEF NewIds
  <2>2. \A y : /\ \A k \in NewIds(d.offers[y].ranks, km) : \E z \in DOMAIN km : k = km[z]
               /\ \A b \in NewIds(d.offers[y].badges, bm) : \E z \in DOMAIN bm : b = bm[z]
    BY DEF NewIds
  <2>3. QED  BY <2>1, <2>2 DEF OfferRecord
<1> HIDE DEF newRank, newBadge, newOffer
<1>15. \A x \in RankIds :
         \/ ranks'[x] = ranks[x]
         \/ Fresh(ranks, x) /\ ranks'[x] \in RankRecord /\ ranks'[x].group = g
  BY <1>7, <1>10, <1>13
<1>16. \A x \in BadgeIds :
         \/ badges'[x] = badges[x]
         \/ Fresh(badges, x) /\ badges'[x] \in BadgeRecord /\ badges'[x].group = g
  BY <1>8, <1>11, <1>13
<1>17. \A x \in OfferIds :
         \/ offers'[x] = offers[x]
         \/ /\ offers'[x] \in OfferRecord /\ offers'[x].group = g
            /\ \A k \in offers'[x].ranks : ranks'[k] # NoRow /\ ranks'[k].group = g
            /\ \A b \in offers'[x].badges : badges'[b] # NoRow /\ badges'[b].group = g
  BY <1>10, <1>11, <1>12, <1>13, <1>14
<1>18. QED
  BY <1>2, <1>6, <1>10, <1>11, <1>12, <1>15, <1>16, <1>17

LEMMA ImportRanks ==
  ASSUME CallsOK, SettingsOK, TemplatesOK, RanksOK, BadgesOK, MembersOK, OffersOK, GroupsGrow,
         GoneGrows, NEW r \in Requests, Import(r)
  PROVE  RanksOK' /\ BadgesOK' /\ MembersOK' /\ OffersOK' /\ KnownStay
<1>1. PICK g \in Groups :
        /\ groups[g] = NoRow /\ groups'[g] # NoRow
        /\ \A x \in RankIds :
             \/ ranks'[x] = ranks[x]
             \/ Fresh(ranks, x) /\ ranks'[x] \in RankRecord /\ ranks'[x].group = g
        /\ \A x \in BadgeIds :
             \/ badges'[x] = badges[x]
             \/ Fresh(badges, x) /\ badges'[x] \in BadgeRecord /\ badges'[x].group = g
        /\ \A x \in OfferIds :
             \/ offers'[x] = offers[x]
             \/ /\ offers'[x] \in OfferRecord /\ offers'[x].group = g
                /\ \A k \in offers'[x].ranks : ranks'[k] # NoRow /\ ranks'[k].group = g
                /\ \A b \in offers'[x].badges : badges'[b] # NoRow /\ badges'[b].group = g
  BY ImportRows DEF RanksOK, BadgesOK, OffersOK
<1>2. /\ ranks' = [x \in RankIds |-> ranks'[x]] /\ badges' = [x \in BadgeIds |-> badges'[x]]
      /\ offers' = [x \in OfferIds |-> offers'[x]]
      /\ UNCHANGED <<members, earned>>
  BY ImportRows DEF RanksOK, BadgesOK, OffersOK
<1>3. pc[r] = "idle" /\ (\A q \in Requests : Same(q)) /\ Moved(r, {"idle"})
  BY CallIs, AtOnceMoves DEF Import
<1>4. \A h : InGroup(h) => InGroup(h)'
  BY DEF InGroup, GroupsGrow
<1>5. KnownStay
  <2>1. RankWrites(r) /\ BadgeWrites(r)
    BY <1>1, <1>3 DEF RankWrites, BadgeWrites
  <2>2. QED  BY <1>3, <2>1, KnownRankStays, KnownBadgeStays DEF RanksOK, BadgesOK, KnownStay
<1>6. RanksOK'
  <2>1. RankRowsOK'
    <3>1. \A x \in RankIds : ranks[x] \in RankRecord \cup {NoRow} /\ (ranks[x] # NoRow =>
             groups[ranks[x].group] # NoRow /\ ranks[x].group \in Groups)
      BY DEF RanksOK, RankRowsOK, RankRecord
    <3>2. \A x \in RankIds : ranks'[x] \in RankRecord \cup {NoRow} /\ (ranks'[x] # NoRow =>
             groups'[ranks'[x].group] # NoRow)
      BY <1>1, <3>1 DEF GroupsGrow
    <3>3. ranks' \in [RankIds -> RankRecord \cup {NoRow}]
      BY <1>2, <3>2
    <3>4. QED  BY <3>2, <3>3 DEF RankRowsOK
  <2>2. RankCall(r)'
    BY <1>3 DEF RankCall, Same
  <2>3. QED  BY <1>3, <1>5, <2>1, <2>2, RanksKept DEF KnownStay
<1>7. BadgesOK'
  <2>1. BadgeRowsOK'
    <3>1. \A x \in BadgeIds : badges[x] \in BadgeRecord \cup {NoRow} /\ (badges[x] # NoRow =>
             groups[badges[x].group] # NoRow /\ badges[x].group \in Groups)
      BY DEF BadgesOK, BadgeRowsOK, BadgeRecord
    <3>2. \A x \in BadgeIds : badges'[x] \in BadgeRecord \cup {NoRow} /\ (badges'[x] # NoRow =>
             groups'[badges'[x].group] # NoRow) /\ (badges[x] # NoRow => badges'[x] # NoRow)
      BY <1>1, <3>1 DEF GroupsGrow, Fresh
    <3>3. badges' \in [BadgeIds -> BadgeRecord \cup {NoRow}]
      BY <1>2, <3>2
    <3>4. QED  BY <3>2, <3>3 DEF BadgeRowsOK
  <2>2. BadgeCall(r)'
    BY <1>3 DEF BadgeCall, Same
  <2>3. QED  BY <1>3, <1>5, <2>1, <2>2, BadgesKept DEF KnownStay
<1>8. MembersOK'
  <2>1. \A k \in RankIds : ranks[k] # NoRow => ranks'[k] # NoRow /\ ranks'[k].group = ranks[k].group
    BY <1>1 DEF Fresh
  <2>2. QED  BY <1>2, <1>3, <1>5, <2>1, MembersStay DEF members
<1>9. OfferRowsOK'
  <2>1. \A x \in OfferIds : offers[x] # NoRow =>
          /\ offers[x] \in OfferRecord /\ offers[x].group \in Groups /\ groups[offers[x].group] # NoRow
          /\ \A k \in offers[x].ranks : k \in RankIds /\ ranks[k] # NoRow /\ ranks[k].group = offers[x].group
          /\ \A b \in offers[x].badges : b \in BadgeIds /\ badges[b] # NoRow /\ badges[b].group = offers[x].group
    BY DEF OffersOK, OfferRowsOK, OfferRecord, PromotionsInGroup
  <2>2. \A x \in OfferIds : offers'[x] # NoRow =>
          /\ offers'[x] \in OfferRecord /\ groups'[offers'[x].group] # NoRow
          /\ \A k \in offers'[x].ranks : ranks'[k] # NoRow /\ ranks'[k].group = offers'[x].group
          /\ \A b \in offers'[x].badges : badges'[b] # NoRow /\ badges'[b].group = offers'[x].group
    BY <1>1, <2>1 DEF GroupsGrow, Fresh
  <2>3. offers' \in [OfferIds -> OfferRecord \cup {NoRow}]
    BY <1>2, <2>2
  <2>4. QED  BY <2>2, <2>3 DEF OfferRowsOK, PromotionsInGroup
<1>10. ASSUME NEW q \in Requests PROVE OfferCall(q)'
  <2>1. pc'[q] = pc[q] /\ call'[q] = call[q]
    BY <1>3 DEF Same
  <2>2. QED  BY <1>4, <1>5, <2>1 DEF OffersOK, OfferCall, KnownStay
<1>11. QED  BY <1>5, <1>6, <1>7, <1>8, <1>9, <1>10 DEF OffersOK

(* The writes of what is for sale, ...                                     *)
LEMMA OffersKept ==
  ASSUME OffersOK, NEW r \in Requests, GroupsGrow, KnownStay, OfferRowsOK', OfferCall(r)',
         \A q \in Requests \ {r} : pc'[q] \in {"offerNew", "offerSave"} => Same(q)
  PROVE  OffersOK'
<1>1. \A g : InGroup(g) => InGroup(g)'
  BY DEF InGroup, GroupsGrow
<1>2. ASSUME NEW q \in Requests, q # r
      PROVE  OfferCall(q)'
  <2>1. CASE pc'[q] \in {"offerNew", "offerSave"}
    <3>1. pc'[q] = pc[q] /\ call'[q] = call[q]
      BY <1>2, <2>1 DEF Same
    <3>2. QED  BY <1>1, <3>1 DEF OffersOK, OfferCall, KnownStay
  <2>2. CASE pc'[q] \notin {"offerNew", "offerSave"}
    BY <2>2 DEF OfferCall
  <2>3. QED  BY <2>1, <2>2
<1>3. QED  BY <1>2 DEF OffersOK

LEMMA OfferRowsStay ==
  ASSUME OfferRowsOK, GroupsGrow, offers' = offers, ranks' = ranks, badges' = badges
  PROVE  OfferRowsOK'
<1>1. \A o \in OfferIds : offers[o] # NoRow => offers[o].group \in Groups
  BY DEF OfferRowsOK, OfferRecord
<1>2. QED  BY <1>1 DEF OfferRowsOK, PromotionsInGroup, GroupsGrow

LEMMA OfferStepOffers ==
  ASSUME CallsOK, RanksOK, BadgesOK, OffersOK, NEW r \in Requests,
         OfferCheck(r) \/ OfferSave(r) \/ DeleteOffer(r), GroupsGrow, KnownStay
  PROVE  OffersOK'
<1>1. /\ ranks' = ranks /\ badges' = badges /\ \A q \in Requests \ {r} : Same(q)
  <2>1. TemplateStep(r)
    BY DEF TemplateStep
  <2>2. QED  BY <2>1, TemplateMoves DEF OfferCheck, OfferSave, DeleteOffer, pageRows, badgeRows
<1>2. CASE OfferCheck(r)
  <2>1. PICK o \in OfferIds, g \in Groups, step \in {"offerNew", "offerSave"},
             ks \in SUBSET RankIds, bs \in SUBSET BadgeIds :
          /\ groups[g] # NoRow /\ offers' = offers
          /\ ks \subseteq Of(ranks, RankIds, g) /\ bs \subseteq Of(badges, BadgeIds, g)
          /\ Begin(r, step, [offer |-> o, row |-> [group |-> g, ranks |-> ks, badges |-> bs]])
    BY <1>2 DEF OfferCheck, Of, templateRows
  <2>2. PICK row : row = [group |-> g, ranks |-> ks, badges |-> bs]
    OBVIOUS
  <2>3. pc'[r] = step /\ call'[r] = [offer |-> o, row |-> row]
    BY <2>1, <2>2, CallIs
  <2>4. row \in OfferRecord /\ row.group = g /\ row.ranks = ks /\ row.badges = bs
    BY <2>2 DEF OfferRecord
  <2>5. /\ \A k \in ks : KnownRank(k, g)
        /\ \A b \in bs : KnownBadge(b, g)
    BY <2>1, ExistingRank, ExistingBadge DEF Of
  <2>6. /\ \A k \in ks : KnownRank(k, g)'
        /\ \A b \in bs : KnownBadge(b, g)'
        /\ InGroup(g)'
    BY <2>1, <2>5 DEF KnownStay, InGroup, GroupsGrow
  <2>7. call'[r].offer = o /\ call'[r].row = row
    BY <2>3
  <2>8. OfferCall(r)'
    BY <2>4, <2>6, <2>7 DEF OfferCall, KnownRank, KnownBadge, InGroup
  <2>9. QED  BY <1>1, <2>1, <2>8, OffersKept, OfferRowsStay DEF OffersOK
<1>3. CASE OfferSave(r)
  <2>1. /\ pc[r] \in {"offerNew", "offerSave"} /\ pc'[r] \in {"idle", "notify"}
        /\ \/ offers' = offers
           \/ /\ offers' = [offers EXCEPT ![call[r].offer] = call[r].row]
              /\ \A k \in call[r].row.ranks : ranks[k] # NoRow
              /\ \A b \in call[r].row.badges : badges[b] # NoRow
    BY <1>3, CallIs DEF OfferSave
  <2>2. /\ call[r].offer \in OfferIds /\ call[r].row \in OfferRecord /\ InGroup(call[r].row.group)
        /\ \A k \in call[r].row.ranks : KnownRank(k, call[r].row.group)
        /\ \A b \in call[r].row.badges : KnownBadge(b, call[r].row.group)
    BY <2>1 DEF OffersOK, OfferCall
  <2>3. OfferCall(r)'
    BY <2>1 DEF OfferCall
  <2>4. CASE offers' = offers
    BY <1>1, <2>3, <2>4, OffersKept, OfferRowsStay DEF OffersOK
  <2>5. CASE offers' # offers
    <3>1. /\ offers' = [offers EXCEPT ![call[r].offer] = call[r].row]
          /\ \A k \in call[r].row.ranks : ranks[k] # NoRow /\ ranks[k].group = call[r].row.group
          /\ \A b \in call[r].row.badges : badges[b] # NoRow /\ badges[b].group = call[r].row.group
      BY <2>1, <2>2, <2>5 DEF KnownRank, KnownBadge
    <3>2. offers' \in [OfferIds -> OfferRecord \cup {NoRow}]
      BY <2>2, <3>1 DEF OffersOK, OfferRowsOK
    <3>3. \A o \in OfferIds : offers[o] # NoRow => offers[o].group \in Groups /\ groups[offers[o].group] # NoRow
      BY DEF OffersOK, OfferRowsOK, OfferRecord
    <3>4. \A o \in OfferIds : offers'[o] = IF o = call[r].offer THEN call[r].row ELSE offers[o]
      BY <3>1 DEF OffersOK, OfferRowsOK
    <3>5. \A o \in OfferIds : offers'[o] # NoRow => groups'[offers'[o].group] # NoRow
      BY <2>2, <3>3, <3>4 DEF InGroup, GroupsGrow
    <3>6. PromotionsInGroup'
      BY <1>1, <3>1, <3>4 DEF PromotionsInGroup, OffersOK, OfferRowsOK
    <3>7. OfferRowsOK'
      BY <3>2, <3>5, <3>6 DEF OfferRowsOK
    <3>8. QED  BY <1>1, <2>3, <3>7, OffersKept
  <2>6. QED  BY <2>4, <2>5
<1>4. CASE DeleteOffer(r)
  <2>1. PICK o \in OfferIds : offers' = [offers EXCEPT ![o] = NoRow]
    BY <1>4 DEF DeleteOffer
  <2>2. pc'[r] = "idle"
    BY <1>4, CallIs DEF DeleteOffer, Same
  <2>3. \A x \in OfferIds : offers[x] # NoRow => offers[x].group \in Groups /\ groups[offers[x].group] # NoRow
    BY DEF OffersOK, OfferRowsOK, OfferRecord
  <2>4. OfferRowsOK'
    BY <1>1, <2>1, <2>3 DEF OffersOK, OfferRowsOK, PromotionsInGroup, GroupsGrow
  <2>5. OfferCall(r)'
    BY <2>2 DEF OfferCall
  <2>6. QED  BY <1>1, <2>4, <2>5, OffersKept
<1>5. QED  BY <1>2, <1>3, <1>4

(* ... and their promotions go with the ranks and the badges.              *)
LEMMA CascadeOffers ==
  ASSUME CallsOK, RanksOK, BadgesOK, OffersOK, RanksOK', BadgesOK', NEW r \in Requests, RankStep(r),
         Cascade, GroupsGrow, KnownStay
  PROVE  OffersOK'
<1>1. Moved(r, RankSteps)
  BY RankMoves
<1>2. \A q \in Requests \ {r} : pc'[q] \in {"offerNew", "offerSave"} => Same(q)
  BY <1>1 DEF Moved, Drafting, Writing, Same
<1>3. OfferCall(r)'
  BY <1>1 DEF Moved, RankSteps, OfferCall
<1>4. \A o \in OfferIds :
        /\ offers[o] = NoRow => offers'[o] = NoRow
        /\ offers[o] # NoRow =>
             /\ offers[o] \in OfferRecord /\ offers'[o] \in OfferRecord
             /\ offers'[o].group = offers[o].group
             /\ offers'[o].ranks = {k \in offers[o].ranks : ranks'[k] # NoRow}
             /\ offers'[o].badges = {b \in offers[o].badges : badges'[b] # NoRow}
  <2>1. ASSUME NEW o \in OfferIds, offers[o] # NoRow
        PROVE  /\ offers[o] \in OfferRecord /\ offers'[o] \in OfferRecord
               /\ offers'[o].group = offers[o].group
               /\ offers'[o].ranks = {k \in offers[o].ranks : ranks'[k] # NoRow}
               /\ offers'[o].badges = {b \in offers[o].badges : badges'[b] # NoRow}
    <3>1. PICK ks, bs : /\ ks = {k \in offers[o].ranks : ranks'[k] # NoRow}
                        /\ bs = {b \in offers[o].badges : badges'[b] # NoRow}
      OBVIOUS
    <3>2. offers'[o] = [offers[o] EXCEPT !.ranks = ks, !.badges = bs]
      BY <2>1, <3>1 DEF Cascade
    <3>3. offers[o] \in OfferRecord
      BY <2>1 DEF OffersOK, OfferRowsOK
    <3>4. ks \subseteq RankIds /\ bs \subseteq BadgeIds
      BY <3>1, <3>3 DEF OfferRecord
    <3>5. QED  BY <3>1, <3>2, <3>3, <3>4 DEF OfferRecord
  <2>2. \A o \in OfferIds : offers[o] = NoRow => offers'[o] = NoRow
    BY DEF Cascade
  <2>3. QED  BY <2>1, <2>2
<1>5. offers' \in [OfferIds -> OfferRecord \cup {NoRow}]
  <2>1. offers' = [o \in OfferIds |-> offers'[o]]
    BY DEF Cascade
  <2>2. QED  BY <1>4, <2>1
<1>6. \A o \in OfferIds : offers'[o] # NoRow => groups'[offers'[o].group] # NoRow
  BY <1>4 DEF OffersOK, OfferRowsOK, OfferRecord, GroupsGrow
<1>7. /\ \A k \in RankIds : ranks[k] # NoRow /\ ranks'[k] # NoRow => ranks'[k].group = ranks[k].group
      /\ \A b \in BadgeIds : badges[b] # NoRow /\ badges'[b] # NoRow => badges'[b].group = badges[b].group
  <2>1. ASSUME NEW k \in RankIds, ranks[k] # NoRow, ranks'[k] # NoRow
        PROVE  ranks'[k].group = ranks[k].group
    <3>1. PICK g : g = ranks[k].group
      OBVIOUS
    <3>2. KnownRank(k, g)'
      BY <2>1, <3>1, ExistingRank DEF KnownStay
    <3>3. QED  BY <2>1, <3>1, <3>2 DEF KnownRank
  <2>2. ASSUME NEW b \in BadgeIds, badges[b] # NoRow, badges'[b] # NoRow
        PROVE  badges'[b].group = badges[b].group
    <3>1. PICK g : g = badges[b].group
      OBVIOUS
    <3>2. KnownBadge(b, g)'
      BY <2>2, <3>1, ExistingBadge DEF KnownStay
    <3>3. QED  BY <2>2, <3>1, <3>2 DEF KnownBadge
  <2>3. QED  BY <2>1, <2>2
<1>8. PromotionsInGroup'
  BY <1>4, <1>7 DEF OffersOK, OfferRowsOK, PromotionsInGroup, OfferRecord
<1>9. OfferRowsOK'
  BY <1>5, <1>6, <1>8 DEF OfferRowsOK
<1>10. QED  BY <1>2, <1>3, <1>9, OffersKept

-----------------------------------------------------------------------------
(* The templates: every row is complete, and so is what an export or a     *)
(* change in progress is going to save.                                    *)
TemplateCalls == {"export", "templateSave", "clone", "favorite"}

TemplateCall(r) ==
  /\ pc[r] = "export" =>
       LET c == call[r] IN
       /\ c.group \in Groups /\ c.creator \in {a.id : a \in Accounts}
       /\ c.public \in BOOLEAN /\ c.raced \in BOOLEAN
       /\ c.lives \in Nat \cup {Unlimited} /\ c.starting \in Nat
       /\ c.raced \/ LivesFit(c.lives, c.starting)
       /\ Held(c.ranks, RankIds, Nat) /\ c.badges \subseteq BadgeIds
  /\ pc[r] \in {"templateSave", "clone"} => Whole(call[r].row)
  /\ pc[r] = "templateSave" => call[r].template \in TemplateIds
  /\ pc[r] = "favorite" => call[r].favorite \in {a.id : a \in Accounts} \X TemplateIds

TemplateRowsOK ==
  /\ DOMAIN templates = TemplateIds
  /\ \A t \in TemplateIds : templates[t] # NoRow => Whole(templates[t])
  /\ favorites \subseteq Favorite

LEMMA TemplateParts ==
  /\ TemplatesOK <=> TemplateRowsOK /\ \A r \in Requests : TemplateCall(r)
  /\ TemplatesOK' <=> TemplateRowsOK' /\ \A r \in Requests : TemplateCall(r)'
  BY DEF TemplatesOK, TemplateRowsOK, TemplateCall

LEMMA WholeIsRow ==
  ASSUME NEW row, Whole(row)
  PROVE  row # NoRow
<1> DEFINE d == row.data
           Part(ids, kind) == UNION {[some -> kind] : some \in SUBSET ids}
           D == [lives : Nat \cup {Unlimited}, starting : Nat, raced : BOOLEAN,
                 ranks : Part(RankIds, Nat), badges : SUBSET BadgeIds,
                 offers : Part(OfferIds, [ranks : SUBSET RankIds, badges : SUBSET BadgeIds]),
                 posts : SUBSET PostIds, orders : Part(StageIds, Nat \cup {NoRow}),
                 acts : Part(ActivityIds, [stage : StageIds, shown : BOOLEAN])]
<1>1. /\ row \in [creator : {a.id : a \in Accounts}, public : BOOLEAN, data : {d}]
      /\ d \in [lives : Nat \cup {Unlimited}, starting : Nat, raced : BOOLEAN,
                ranks : {d.ranks}, badges : SUBSET BadgeIds, offers : {d.offers},
                posts : SUBSET PostIds, orders : {d.orders}, acts : {d.acts}]
  BY DEF Whole, Snapshot
<1>2. /\ Held(d.ranks, RankIds, Nat)
      /\ Held(d.offers, OfferIds, [ranks : SUBSET RankIds, badges : SUBSET BadgeIds])
      /\ Held(d.orders, StageIds, Nat \cup {NoRow})
      /\ Held(d.acts, ActivityIds, [stage : DOMAIN d.orders, shown : BOOLEAN])
  BY DEF Whole, Snapshot
<1>3. ASSUME NEW rows, NEW ids, NEW kind, Held(rows, ids, kind)
      PROVE  rows \in Part(ids, kind)
  BY <1>3 DEF Held
<1>4. Held(d.acts, ActivityIds, [stage : StageIds, shown : BOOLEAN])
  BY <1>2 DEF Held
<1>5. /\ d.ranks \in Part(RankIds, Nat)
      /\ d.offers \in Part(OfferIds, [ranks : SUBSET RankIds, badges : SUBSET BadgeIds])
      /\ d.orders \in Part(StageIds, Nat \cup {NoRow})
      /\ d.acts \in Part(ActivityIds, [stage : StageIds, shown : BOOLEAN])
  <2> HIDE DEF Part, d
  <2>1. QED  BY <1>2, <1>3, <1>4
<1>6. d \in D
  <2> HIDE DEF Part
  <2>1. QED  BY <1>1, <1>5
<1>7. row \in [creator : {a.id : a \in Accounts}, public : BOOLEAN, data : D]
  <2> HIDE DEF D
  <2>1. QED  BY <1>1, <1>6
<1>8. NoRow \notin [creator : {a.id : a \in Accounts}, public : BOOLEAN, data : D]
  BY RowsAssumption
<1>9. QED  BY <1>7, <1>8

LEMMA TemplatesKept ==
  ASSUME TemplatesOK, NEW r \in Requests, TemplateRowsOK', TemplateCall(r)',
         \A q \in Requests \ {r} : pc'[q] \in TemplateCalls => Same(q)
  PROVE  TemplatesOK'
<1>1. ASSUME NEW q \in Requests, q # r
      PROVE  TemplateCall(q)'
  <2>1. CASE pc'[q] \in TemplateCalls
    <3>1. pc'[q] = pc[q] /\ call'[q] = call[q]
      BY <1>1, <2>1 DEF Same
    <3>2. TemplateCall(q)
      BY TemplateParts
    <3>3. QED  BY <3>1, <3>2 DEF TemplateCall
  <2>2. CASE pc'[q] \notin TemplateCalls
    BY <2>2 DEF TemplateCall, TemplateCalls
  <2>3. QED  BY <2>1, <2>2
<1>2. QED  BY <1>1, TemplateParts

LEMMA TemplatesStay ==
  ASSUME TemplatesOK, templates' = templates, favorites' = favorites
  PROVE  TemplateRowsOK'
  BY DEF TemplatesOK, TemplateRowsOK, Favorite, There

LEMMA ExportReadTemplates ==
  ASSUME CallsOK, SettingsOK, RankRowsOK, NEW r \in Requests, ExportRead(r)
  PROVE  TemplateCall(r)'
<1>1. PICK g, public, km, bs :
        /\ g \in Groups /\ public \in BOOLEAN
        /\ groups[g] # NoRow
        /\ km = [k \in Of(ranks, RankIds, g) |-> ranks[k].required] /\ bs = Of(badges, BadgeIds, g)
        /\ Begin(r, "export", [group |-> g, public |-> public, creator |-> groups[g].teacher,
             lives |-> groups[g].lives, starting |-> groups[g].starting, raced |-> g \in raced,
             ranks |-> km, badges |-> bs])
  BY DEF ExportRead
<1>2. /\ pc'[r] = "export"
      /\ call'[r] = [group |-> g, public |-> public, creator |-> groups[g].teacher,
             lives |-> groups[g].lives, starting |-> groups[g].starting, raced |-> g \in raced,
             ranks |-> km, badges |-> bs]
  BY <1>1, CallIs
<1>3. /\ call'[r].group = g /\ call'[r].public = public /\ call'[r].creator = groups[g].teacher
      /\ call'[r].lives = groups[g].lives /\ call'[r].starting = groups[g].starting
      /\ call'[r].raced = (g \in raced) /\ call'[r].ranks = km /\ call'[r].badges = bs
  BY <1>2
<1>4. /\ g \in Groups /\ public \in BOOLEAN
      /\ groups[g].teacher \in {a.id : a \in Accounts}
      /\ groups[g].lives \in Nat \cup {Unlimited} /\ groups[g].starting \in Nat
      /\ g \in raced \/ LivesFit(groups[g].lives, groups[g].starting)
  <2>1. groups[g] \in GroupRow /\ (g \in raced \/ LivesFit(groups[g].lives, groups[g].starting))
    BY <1>1 DEF SettingsOK, StartWithinLives
  <2>2. QED  BY <1>1, <2>1 DEF GroupRow
<1>5. Held(km, RankIds, Nat) /\ bs \subseteq BadgeIds
  <2>1. \A k \in Of(ranks, RankIds, g) : k \in RankIds /\ ranks[k].required \in Nat
    BY DEF Of, RankRowsOK, RankRecord
  <2>2. QED  BY <1>1, <2>1 DEF Held, Of
<1>6. call'[r].raced \in BOOLEAN /\ (call'[r].raced \/ LivesFit(call'[r].lives, call'[r].starting))
  <2>1. (g \in raced) \in BOOLEAN
    BY SMT
  <2>2. call'[r].raced \in BOOLEAN
    BY Zenon, <1>3, <2>1
  <2>3. g \in raced => call'[r].raced
    BY Zenon, <1>3
  <2>4. g \notin raced => LivesFit(call'[r].lives, call'[r].starting)
    BY <1>3, <1>4 DEF LivesFit
  <2>5. QED  BY Zenon, <2>2, <2>3, <2>4
<1>7. QED
  BY <1>2, <1>3, <1>4, <1>5, <1>6 DEF TemplateCall, LivesFit

LEMMA Exported ==
  ASSUME StageRowsOK, OfferRowsOK, TemplatesOK, NEW r \in Requests, pc[r] = "export"
  PROVE  LET c == call[r]
             os == Of(offers, OfferIds, c.group)
             ss == Of(stages, StageIds, c.group)
         IN Whole([creator |-> c.creator, public |-> c.public, data |->
             [lives |-> c.lives, starting |-> c.starting, raced |-> c.raced,
              ranks |-> c.ranks, badges |-> c.badges,
              offers |-> [o \in os |-> [ranks |-> offers[o].ranks, badges |-> offers[o].badges]],
              posts |-> Of(posts, PostIds, c.group),
              orders |-> [s \in ss |-> stages[s].order],
              acts |-> [a \in UNION {Inside(s) : s \in ss} |-> activities[a]]]])
<1> DEFINE c == call[r]
           os == Of(offers, OfferIds, c.group)
           ss == Of(stages, StageIds, c.group)
<1>1. PICK om, sm, am, ps :
        /\ om = [o \in os |-> [ranks |-> offers[o].ranks, badges |-> offers[o].badges]]
        /\ sm = [s \in ss |-> stages[s].order]
        /\ am = [a \in UNION {Inside(s) : s \in ss} |-> activities[a]]
        /\ ps = Of(posts, PostIds, c.group)
  OBVIOUS
<1>2. Held(om, OfferIds, [ranks : SUBSET RankIds, badges : SUBSET BadgeIds])
  <2>1. \A o \in os : o \in OfferIds /\ offers[o].ranks \subseteq RankIds /\ offers[o].badges \subseteq BadgeIds
    BY DEF Of, OfferRowsOK, OfferRecord
  <2>2. DOMAIN om = os /\ \A o \in os : om[o] \in [ranks : SUBSET RankIds, badges : SUBSET BadgeIds]
    BY <1>1, <2>1
  <2>3. om = [o \in os |-> om[o]]
    BY <1>1
  <2>4. QED  BY <2>1, <2>2, <2>3 DEF Held
<1>3. Held(sm, StageIds, Nat \cup {NoRow}) /\ DOMAIN sm = ss
  <2>1. \A s \in ss : s \in StageIds /\ stages[s].order \in Nat \cup {NoRow}
    BY DEF Of, StageRowsOK, StageRecord
  <2>2. QED  BY <1>1, <2>1 DEF Held
<1>4. Held(am, ActivityIds, [stage : ss, shown : BOOLEAN])
  <2>1. ASSUME NEW s \in ss, NEW a \in Inside(s)
        PROVE  a \in ActivityIds /\ activities[a] \in [stage : ss, shown : BOOLEAN]
    <3>1. a \in ActivityIds /\ activities[a] \in ActivityRecord /\ activities[a].stage = s
      BY <2>1 DEF Inside, There, StageRowsOK
    <3>2. QED  BY <3>1 DEF ActivityRecord
  <2>2. \A a \in UNION {Inside(s) : s \in ss} :
          a \in ActivityIds /\ activities[a] \in [stage : ss, shown : BOOLEAN]
    BY <2>1
  <2> HIDE DEF ss
  <2>3. QED  BY <1>1, <2>2 DEF Held
<1>5. PICK d : d = [lives |-> c.lives, starting |-> c.starting, raced |-> c.raced,
                    ranks |-> c.ranks, badges |-> c.badges, offers |-> om, posts |-> ps,
                    orders |-> sm, acts |-> am]
  OBVIOUS
<1>6. PICK row : row = [creator |-> c.creator, public |-> c.public, data |-> d]
  OBVIOUS
<1>7. TemplateCall(r)
  BY TemplateParts
<1>8. /\ c.creator \in {a.id : a \in Accounts} /\ c.public \in BOOLEAN /\ c.raced \in BOOLEAN
      /\ c.lives \in Nat \cup {Unlimited} /\ c.starting \in Nat
      /\ c.raced \/ LivesFit(c.lives, c.starting)
      /\ Held(c.ranks, RankIds, Nat) /\ c.badges \subseteq BadgeIds
  BY <1>7 DEF TemplateCall
<1>9. /\ d.lives = c.lives /\ d.starting = c.starting /\ d.raced = c.raced /\ d.ranks = c.ranks
      /\ d.badges = c.badges /\ d.offers = om /\ d.posts = ps /\ d.orders = sm /\ d.acts = am
  BY <1>5
<1>10. ps \subseteq PostIds
  BY <1>1 DEF Of
<1>11. d \in [lives : Nat \cup {Unlimited}, starting : Nat, raced : BOOLEAN,
              ranks : {d.ranks}, badges : SUBSET BadgeIds, offers : {d.offers},
              posts : SUBSET PostIds, orders : {d.orders}, acts : {d.acts}]
  <2> HIDE DEF c
  <2>1. QED  BY <1>5, <1>8, <1>9, <1>10
<1>12. Snapshot(d)
  <2> HIDE DEF c, ss, os
  <2>1. QED  BY <1>2, <1>3, <1>4, <1>8, <1>9, <1>11 DEF Snapshot
<1>13. row \in [creator : {a.id : a \in Accounts}, public : BOOLEAN, data : {d}] /\ row.data = d
  <2> HIDE DEF c
  <2>1. QED  BY <1>6, <1>8
<1>14. Whole(row)
  <2> HIDE DEF c
  <2>1. d.raced \/ LivesFit(d.lives, d.starting)
    BY <1>8, <1>9
  <2>2. QED  BY <1>12, <1>13, <2>1 DEF Whole
<1>15. QED  BY <1>1, <1>5, <1>6, <1>14

LEMMA TemplateStepTemplates ==
  ASSUME CallsOK, SettingsOK, TemplatesOK, RankRowsOK, StageRowsOK, OfferRowsOK, NEW r \in Requests,
         TemplateStep(r)
  PROVE  TemplatesOK'
<1>1. \A q \in Requests \ {r} : Same(q)
  BY TemplateMoves
<1>2. /\ DOMAIN templates = TemplateIds /\ favorites \subseteq Favorite
      /\ \A t \in TemplateIds : templates[t] # NoRow => Whole(templates[t])
  BY DEF TemplatesOK
<1>3. CASE OfferCheck(r) \/ OfferSave(r) \/ DeleteOffer(r)
  <2>1. templates' = templates /\ favorites' = favorites
    BY <1>3 DEF OfferCheck, OfferSave, DeleteOffer, templateRows
  <2>2. pc'[r] \notin TemplateCalls
    <3>1. CASE OfferCheck(r)
      <4>1. \E c : Begin(r, "offerNew", c) \/ Begin(r, "offerSave", c)
        BY <3>1 DEF OfferCheck
      <4>2. pc'[r] \in {"offerNew", "offerSave"}
        BY <4>1, CallIs
      <4>3. QED  BY <4>2 DEF TemplateCalls
    <3>2. CASE OfferSave(r)
      BY <3>2, CallIs DEF OfferSave, TemplateCalls
    <3>3. CASE DeleteOffer(r)
      BY <3>3, CallIs DEF DeleteOffer, Same, TemplateCalls
    <3>4. QED  BY <1>3, <3>1, <3>2, <3>3
  <2>3. TemplateCall(r)'
    BY <2>2 DEF TemplateCall, TemplateCalls
  <2>4. QED  BY <1>1, <2>1, <2>3, TemplatesKept, TemplatesStay
<1>4. CASE ExportRead(r)
  <2>1. templates' = templates /\ favorites' = favorites
    BY <1>4 DEF ExportRead, templateRows
  <2>2. QED  BY <1>1, <1>4, <2>1, ExportReadTemplates, TemplatesKept, TemplatesStay
<1>5. CASE ExportSave(r)
  <2>1. PICK t, row :
          /\ t \in TemplateIds
          /\ templates[t] = NoRow /\ Whole(row) /\ templates' = [templates EXCEPT ![t] = row]
    BY <1>5, Exported DEF ExportSave, Fresh
  <2>2. pc'[r] = "idle" /\ favorites' = favorites
    BY <1>5, CallIs DEF ExportSave
  <2>3. TemplateCall(r)'
    BY <2>2 DEF TemplateCall
  <2>4. \A x \in TemplateIds : templates'[x] = IF x = t THEN row ELSE templates[x]
    BY <1>2, <2>1
  <2>5. DOMAIN templates' = TemplateIds /\ \A x \in TemplateIds : templates'[x] # NoRow => Whole(templates'[x])
    BY <1>2, <2>1, <2>4
  <2>6. favorites' \subseteq Favorite'
    BY <1>2, <2>1, <2>2, <2>4, <2>5 DEF Favorite, There
  <2>7. QED  BY <1>1, <2>3, <2>5, <2>6, TemplatesKept DEF TemplateRowsOK, Whole, Snapshot, Held
<1>6. CASE Import(r)
  <2>1. templates' = templates /\ favorites' = favorites
    BY <1>6, ImportIs
  <2>2. Same(r) /\ pc[r] = "idle"
    BY <1>6, CallIs DEF Import
  <2>3. TemplateCall(r)'
    BY <2>2 DEF TemplateCall, Same
  <2>4. QED  BY <1>1, <2>1, <2>3, TemplatesKept, TemplatesStay
<1>7. CASE TemplateRead(r)
  <2>1. PICK t, step, row, who, shown :
          /\ t \in TemplateIds /\ step \in {"templateSave", "clone"}
          /\ templates[t] # NoRow /\ who \in {a.id : a \in Accounts} /\ shown \in BOOLEAN
          /\ row = [templates[t] EXCEPT !.creator = who, !.public = shown]
          /\ Begin(r, step, [template |-> t, row |-> row])
    <3>1. PICK c, t, step, row :
            /\ c \in Callers /\ t \in TemplateIds /\ step \in {"templateSave", "clone"}
            /\ templates[t] # NoRow /\ LecturerId(c) # NoRow
            /\ row = IF step = "clone"
                     THEN [templates[t] EXCEPT !.creator = LecturerId(c), !.public = FALSE]
                     ELSE [templates[t] EXCEPT !.public = ~@]
            /\ Begin(r, step, [template |-> t, row |-> row])
      BY <1>7 DEF TemplateRead
    <3>2. /\ templates[t] \in [creator : {a.id : a \in Accounts}, public : BOOLEAN, data : {templates[t].data}]
          /\ LecturerId(c) \in {a.id : a \in Accounts}
      BY <1>2, <3>1, AccountOf DEF Whole
    <3>3. CASE step = "clone"
      BY <3>1, <3>2, <3>3
    <3>4. CASE step # "clone"
      <4>1. PICK who, shown : who = templates[t].creator /\ shown = ~templates[t].public
        OBVIOUS
      <4>2. row = [templates[t] EXCEPT !.creator = who, !.public = shown]
        BY <3>1, <3>2, <3>4, <4>1
      <4>3. who \in {a.id : a \in Accounts} /\ shown \in BOOLEAN
        BY <3>2, <4>1
      <4>4. QED  BY <3>1, <4>2, <4>3
    <3>5. QED  BY <3>3, <3>4
  <2>2. Whole(templates[t])
    BY <1>2, <2>1
  <2>3. /\ row \in [creator : {a.id : a \in Accounts}, public : BOOLEAN, data : {row.data}]
        /\ row.data = templates[t].data
    BY <2>1, <2>2 DEF Whole
  <2>4. Whole(row)
    BY <2>2, <2>3 DEF Whole
  <2>5. pc'[r] = step /\ call'[r] = [template |-> t, row |-> row]
    BY <2>1, CallIs
  <2>6. /\ call'[r].template = t /\ call'[r].row = row
        /\ t \in TemplateIds /\ step \in {"templateSave", "clone"}
    BY <2>1, <2>5
  <2>7. TemplateCall(r)'
    BY <2>4, <2>5, <2>6 DEF TemplateCall, Whole, Snapshot, Held, LivesFit
  <2>8. templates' = templates /\ favorites' = favorites
    BY <1>7 DEF TemplateRead, templateRows
  <2>9. QED  BY <1>1, <2>7, <2>8, TemplatesKept, TemplatesStay
<1>8. CASE TemplateSave(r)
  <2>1. PICK t \in TemplateIds :
          /\ pc[r] \in {"templateSave", "clone"} /\ templates' = [templates EXCEPT ![t] = call[r].row]
          /\ favorites' = favorites
    BY <1>8 DEF TemplateSave
  <2>2. PICK row : row = call[r].row
    OBVIOUS
  <2>3. Whole(row) /\ row # NoRow
    BY <2>1, <2>2, TemplateParts, WholeIsRow DEF TemplateCall
  <2>4. pc'[r] = "idle"
    BY <1>8, CallIs DEF TemplateSave
  <2>5. TemplateCall(r)'
    BY <2>4 DEF TemplateCall
  <2>6. \A x \in TemplateIds : templates'[x] = IF x = t THEN row ELSE templates[x]
    BY <1>2, <2>1, <2>2
  <2>7. DOMAIN templates' = TemplateIds /\ \A x \in TemplateIds : templates'[x] # NoRow => Whole(templates'[x])
    BY <1>2, <2>1, <2>3, <2>6
  <2>8. favorites' \subseteq Favorite'
    BY <1>2, <2>1, <2>3, <2>6, <2>7 DEF Favorite, There
  <2>9. QED  BY <1>1, <2>5, <2>7, <2>8, TemplatesKept DEF TemplateRowsOK, Whole, Snapshot, Held
<1>9. CASE DeleteTemplate(r)
  <2>1. PICK t \in TemplateIds :
          templates' = [templates EXCEPT ![t] = NoRow] /\ favorites' = {f \in favorites : f[2] # t}
    BY <1>9 DEF DeleteTemplate
  <2>2. Same(r) /\ pc[r] = "idle"
    BY <1>9, CallIs DEF DeleteTemplate
  <2>3. TemplateCall(r)'
    BY <2>2 DEF TemplateCall, Same
  <2>4. TemplateRowsOK'
    <3>1. \A x \in TemplateIds : templates'[x] = IF x = t THEN NoRow ELSE templates[x]
      BY <1>2, <2>1
    <3>2. DOMAIN templates' = TemplateIds /\ \A x \in TemplateIds : templates'[x] # NoRow => Whole(templates'[x])
      BY <1>2, <2>1, <3>1
    <3>3. favorites' \subseteq Favorite'
      BY <1>2, <2>1, <3>1, <3>2 DEF Favorite, There
    <3>4. QED  BY <3>2, <3>3 DEF TemplateRowsOK, Whole, Snapshot, Held
  <2>5. QED  BY <1>1, <2>3, <2>4, TemplatesKept
<1>10. CASE FavoriteCheck(r)
  <2>1. PICK t \in TemplateIds, who \in {a.id : a \in Accounts} :
          Begin(r, "favorite", [favorite |-> <<who, t>>])
    BY <1>10, AccountOf DEF FavoriteCheck
  <2>2. pc'[r] = "favorite" /\ call'[r] = [favorite |-> <<who, t>>]
    BY <2>1, CallIs
  <2>3. call'[r].favorite = <<who, t>>
    BY <2>2
  <2>4. TemplateCall(r)'
    BY <2>2, <2>3 DEF TemplateCall
  <2>5. templates' = templates /\ favorites' = favorites
    BY <1>10 DEF FavoriteCheck, templateRows
  <2>6. QED  BY <1>1, <2>4, <2>5, TemplatesKept, TemplatesStay
<1>11. CASE FavoriteSave(r)
  <2>1. /\ pc[r] = "favorite" /\ pc'[r] = "idle" /\ templates' = templates
        /\ favorites' = IF templates[call[r].favorite[2]] # NoRow
                        THEN favorites \cup {call[r].favorite} ELSE favorites
    BY <1>11, CallIs DEF FavoriteSave
  <2>2. call[r].favorite \in {a.id : a \in Accounts} \X TemplateIds
    BY <2>1 DEF TemplatesOK
  <2>3. TemplateCall(r)'
    BY <2>1 DEF TemplateCall
  <2>4. favorites' \subseteq Favorite
    BY <1>2, <2>1, <2>2 DEF Favorite, There
  <2>5. TemplateRowsOK'
    BY <1>2, <2>1, <2>4 DEF TemplateRowsOK, Favorite, There
  <2>6. QED  BY <1>1, <2>3, <2>5, TemplatesKept
<1>12. CASE Unfavorite(r)
  <2>1. templates' = templates /\ favorites' \subseteq favorites
    BY <1>12 DEF Unfavorite
  <2>2. Same(r) /\ pc[r] = "idle"
    BY <1>12, CallIs DEF Unfavorite
  <2>3. TemplateCall(r)'
    BY <2>2 DEF TemplateCall, Same
  <2>4. TemplateRowsOK'
    BY <1>2, <2>1 DEF TemplateRowsOK, Favorite, There
  <2>5. QED  BY <1>1, <2>3, <2>4, TemplatesKept
<1>13. QED
  BY <1>3, <1>4, <1>5, <1>6, <1>7, <1>8, <1>9, <1>10, <1>11, <1>12 DEF TemplateStep

LEMMA TemplatesNext ==
  ASSUME CallsOK, SettingsOK, TemplatesOK, RankRowsOK, StageRowsOK, OfferRowsOK, [Next]_pageVars
  PROVE  TemplatesOK'
<1>1. ASSUME NEW r \in Requests, CallStep(r)
      PROVE  TemplatesOK'
  <2>1. CASE TemplateStep(r)
    BY <2>1, TemplateStepTemplates
  <2>2. CASE ~TemplateStep(r)
    <3>1. templates' = templates /\ favorites' = favorites
      BY <1>1, <2>2 DEF CallStep, templateRows
    <3>2. PICK S : Moved(r, S) /\ S \cap TemplateCalls = {}
      BY <1>1, <2>2, GroupMoves, RankMoves, StageMoves, PostMoves, BacklogMoves, FailMoves
         DEF CallStep, GroupSteps, RankSteps, StageSteps, PostSteps, TemplateCalls
    <3>3. TemplateCall(r)'
      BY <3>2 DEF Moved, TemplateCall, TemplateCalls
    <3>4. \A q \in Requests \ {r} : pc'[q] \in TemplateCalls => Same(q)
      BY <3>2 DEF Moved, Same, TemplateCalls, Drafting, Writing
    <3>5. QED  BY <3>1, <3>3, <3>4, TemplatesKept, TemplatesStay
  <2>3. QED  BY <2>1, <2>2
<1>2. CASE UNCHANGED <<templates, favorites, pc, call>>
  BY <1>2 DEF TemplatesOK, Favorite, There
<1>3. QED
  BY <1>1, <1>2 DEF Next, TimePasses, pageVars, templateRows, calls

-----------------------------------------------------------------------------
(* Ranks, badges, members and what is for sale, by all steps.              *)
LEMMA OthersMove ==
  ASSUME CallsOK, NEW r \in Requests, NEW S, Moved(r, S),
         S \cap (RankCalls \cup BadgeCalls \cup {"offerNew", "offerSave"}) = {}
  PROVE  /\ \A q \in Requests \ {r} : /\ pc'[q] \in RankCalls => Same(q)
                                      /\ pc'[q] \in BadgeCalls => Same(q)
                                      /\ pc'[q] \in {"offerNew", "offerSave"} => Same(q)
         /\ pc'[r] \notin RankCalls /\ pc'[r] \notin BadgeCalls
         /\ pc'[r] \notin {"offerNew", "offerSave"} /\ OfferCall(r)'
  BY DEF Moved, Same, Drafting, Writing, RankCalls, BadgeCalls, OfferCall

(* A step that writes none of them but the members' statistics.            *)
LEMMA OthersStay ==
  ASSUME CallsOK, RanksOK, BadgesOK, OffersOK, NEW r \in Requests, NEW S, Moved(r, S),
         S \cap (RankCalls \cup BadgeCalls \cup {"offerNew", "offerSave"}) = {},
         GroupsGrow, GoneGrows, UNCHANGED <<ranks, badges, offers>>
  PROVE  RanksOK' /\ BadgesOK' /\ OffersOK' /\ KnownStay
<1>1. RanksOK' /\ \A k, g : KnownRank(k, g) => KnownRank(k, g)'
  BY OthersMove, RanksStay
<1>2. BadgesOK' /\ \A b, g : KnownBadge(b, g) => KnownBadge(b, g)'
  BY OthersMove, BadgesStay, BadgeRowsStay DEF BadgesOK, badgeRows
<1>3. KnownStay
  BY <1>1, <1>2 DEF KnownStay
<1>4. OffersOK'
  BY <1>3, OthersMove, OffersKept, OfferRowsStay DEF OffersOK
<1>5. QED  BY <1>1, <1>2, <1>3, <1>4

LEMMA RowsSame ==
  ASSUME RanksOK, BadgesOK, MembersOK, OffersOK,
         UNCHANGED <<groups, stats, ranks, badges, offers, gone, pc, call>>
  PROVE  RanksOK' /\ BadgesOK' /\ MembersOK' /\ OffersOK'
<1>1. \A k, g : KnownRank(k, g) = KnownRank(k, g)'
  BY DEF KnownRank
<1>2. \A b, g : KnownBadge(b, g) = KnownBadge(b, g)'
  BY DEF KnownBadge
<1>3. RanksOK'
  BY <1>1 DEF RanksOK, RankRowsOK, RankCall, InGroup
<1>4. BadgesOK'
  BY <1>2 DEF BadgesOK, BadgeRowsOK, BadgeCall, InGroup
<1>5. MembersOK'
  <2>1. MemberRowsOK'
    BY DEF MembersOK, MemberRowsOK, HasRank
  <2>2. GroupsGrow /\ KnownStay /\ MembersGrow
    BY <1>1, <1>2 DEF GroupsGrow, KnownStay, MembersGrow, Members
  <2>3. \A q \in Requests : Draft(q)'
    BY <2>2, DraftStays
  <2>4. QED  BY <2>1, <2>3 DEF MembersOK
<1>6. OffersOK'
  BY <1>1, <1>2 DEF OffersOK, OfferRowsOK, PromotionsInGroup, OfferCall, InGroup
<1>7. QED  BY <1>3, <1>4, <1>5, <1>6

LEMMA RowsStep ==
  ASSUME CallsOK, SettingsOK, TemplatesOK, RanksOK, BadgesOK, MembersOK, OffersOK,
         NEW r \in Requests, CallStep(r), GroupsGrow, GoneGrows
  PROVE  RanksOK' /\ BadgesOK' /\ MembersOK' /\ OffersOK'
<1>1. DOMAIN groups = Groups
  BY DEF SettingsOK
<1>2. ASSUME NEW S, Moved(r, S),
             S \cap (RankCalls \cup BadgeCalls \cup {"offerNew", "offerSave"}) = {},
             S \cap (DraftSteps) = {},
             UNCHANGED <<ranks, badges, offers, stats>>
      PROVE  RanksOK' /\ BadgesOK' /\ MembersOK' /\ OffersOK'
  <2>1. RanksOK' /\ BadgesOK' /\ OffersOK' /\ KnownStay
    BY <1>2, OthersStay
  <2>2. pc'[r] \notin DraftSteps
    BY <1>2 DEF Moved
  <2>3. MembersOK'
    BY <1>2, <2>1, <2>2, MembersStay
  <2>4. QED  BY <2>1, <2>3
<1>3. CASE GroupStep(r) /\ UNCHANGED <<badgeRows, templateRows>>
  <2>1. ranks' = ranks
    BY <1>3 DEF GroupStep, CreateGroup, ConfigRead, ConfigWrite, CapRead, CapCompare, CapWrite, Compare, JoinRead,
       JoinWrite, Notify
  <2>2. /\ Moved(r, GroupSteps)
        /\ GroupSteps \cap (RankCalls \cup BadgeCalls \cup {"offerNew", "offerSave"}) = {}
    BY <1>3, GroupMoves DEF GroupSteps, RankCalls, BadgeCalls
  <2>3. RanksOK' /\ BadgesOK' /\ OffersOK' /\ KnownStay
    BY <1>3, <2>1, <2>2, OthersStay DEF badgeRows, templateRows
  <2>4. QED  BY <1>3, <2>3, GroupStepMembers
<1>4. CASE RankStep(r) /\ Cascade
  <2>1. RanksOK' /\ \A k, g : KnownRank(k, g) => KnownRank(k, g)'
    BY <1>1, <1>4, RankStepRanks
  <2>3. BadgesOK' /\ \A b, g : KnownBadge(b, g) => KnownBadge(b, g)'
    BY <1>1, <1>4, BadgeStepBadges
  <2>4. KnownStay
    BY <2>1, <2>3 DEF KnownStay
  <2>5. QED  BY <1>4, <2>1, <2>3, <2>4, RankStepMembers, CascadeOffers
<1>5. CASE StageStep(r) /\ UNCHANGED <<badgeRows, templateRows>>
  <2>1. UNCHANGED <<ranks, stats>>
    BY <1>5 DEF StageStep, CreateStage, ModifyStageRead, ModifyStageSave, RemoveStageFind,
                RemoveStage, ReorderStages, CreateActivityCheck, CreateActivity,
                ModifyActivityRead, ModifyActivitySave, RemoveCompletions, RemoveActivity,
                Complete, groupRows, members
  <2>2. Moved(r, StageSteps)
    BY <1>5, StageMoves
  <2>3. QED  BY <1>2, <1>5, <2>1, <2>2
             DEF StageSteps, RankCalls, BadgeCalls, DraftSteps, Drafting, Writing, badgeRows, templateRows
<1>6. CASE PostStep(r) /\ UNCHANGED <<badgeRows, templateRows>>
  <2>1. UNCHANGED <<ranks, stats>>
    BY <1>6 DEF PostStep, CreatePost, UpdatePostRead, UpdatePost, DeletePost, PostJobFind,
                PostJobPublish, Tell, members
  <2>2. Moved(r, PostSteps)
    BY <1>6, PostMoves
  <2>3. QED  BY <1>2, <1>6, <2>1, <2>2
             DEF PostSteps, RankCalls, BadgeCalls, DraftSteps, Drafting, Writing, badgeRows, templateRows
<1>7. CASE (BacklogStep(r) \/ Fail(r)) /\ UNCHANGED <<badgeRows, templateRows>>
  <2>1. UNCHANGED <<ranks, stats>> /\ Moved(r, {"idle"})
    BY <1>7, BacklogMoves, FailMoves DEF Fail, members
  <2>2. QED  BY <1>2, <1>7, <2>1 DEF RankCalls, BadgeCalls, DraftSteps, Drafting, Writing, badgeRows, templateRows
<1>8. CASE Import(r)
  BY <1>8, ImportRanks
<1>9. CASE OfferCheck(r) \/ OfferSave(r) \/ DeleteOffer(r)
  <2>1. UNCHANGED <<ranks, badges, stats>>
    BY <1>9 DEF OfferCheck, OfferSave, DeleteOffer, pageRows, badgeRows, members
  <2>2. Moved(r, TemplateSteps)
    BY <1>9, TemplateMoves DEF TemplateStep
  <2>3. /\ \A q \in Requests \ {r} : /\ pc'[q] \in RankCalls => Same(q)
                                     /\ pc'[q] \in BadgeCalls => Same(q)
        /\ pc'[r] \notin RankCalls /\ pc'[r] \notin BadgeCalls
        /\ pc'[r] \notin DraftSteps
    BY <2>2 DEF Moved, TemplateSteps, RankCalls, BadgeCalls, DraftSteps, Drafting, Writing, Same
  <2>4. RanksOK' /\ \A k, g : KnownRank(k, g) => KnownRank(k, g)'
    BY <2>1, <2>3, RanksStay
  <2>5. BadgesOK' /\ \A b, g : KnownBadge(b, g) => KnownBadge(b, g)'
    BY <2>1, <2>3, BadgesStay, BadgeRowsStay DEF BadgesOK, badgeRows
  <2>6. KnownStay
    BY <2>4, <2>5 DEF KnownStay
  <2>7. MembersOK'
    BY <2>1, <2>2, <2>3, <2>6, MembersStay
  <2>8. QED  BY <1>9, <2>4, <2>5, <2>6, <2>7, OfferStepOffers
<1>10. CASE /\ TemplateStep(r)
            /\ ~(Import(r) \/ OfferCheck(r) \/ OfferSave(r) \/ DeleteOffer(r))
  <2>1. /\ UNCHANGED <<ranks, badges, stats, offers>>
        /\ pc'[r] \in {"idle", "export", "templateSave", "clone", "favorite"}
    <3>1. CASE ExportRead(r)
      BY <3>1, CallIs DEF ExportRead, pageRows, templateRows, badgeRows, members
    <3>2. CASE ExportSave(r) \/ TemplateSave(r) \/ FavoriteSave(r)
      BY <3>2, CallIs DEF ExportSave, TemplateSave, FavoriteSave, pageRows, badgeRows, members
    <3>3. CASE TemplateRead(r)
      <4>1. PICK step, c : Begin(r, step, c) /\ step \in {"templateSave", "clone"}
        BY <3>3 DEF TemplateRead
      <4>2. pc'[r] = step /\ step \in {"templateSave", "clone"}
        BY <4>1, CallIs
      <4>3. QED  BY <3>3, <4>2 DEF TemplateRead, pageRows, templateRows, badgeRows, members
    <3>4. CASE DeleteTemplate(r) \/ Unfavorite(r)
      BY <3>4, CallIs DEF DeleteTemplate, Unfavorite, pageRows, badgeRows, members, Same
    <3>5. CASE FavoriteCheck(r)
      BY <3>5, CallIs DEF FavoriteCheck, pageRows, templateRows, badgeRows, members
    <3>6. QED  BY <1>10, <3>1, <3>2, <3>3, <3>4, <3>5 DEF TemplateStep
  <2>2. Moved(r, {"idle", "export", "templateSave", "clone", "favorite"})
    BY <1>10, <2>1, TemplateMoves DEF Moved
  <2>3. QED  BY <1>2, <2>1, <2>2 DEF RankCalls, BadgeCalls, DraftSteps, Drafting, Writing
<1>11. QED
  BY <1>3, <1>4, <1>5, <1>6, <1>7, <1>8, <1>9, <1>10 DEF CallStep

LEMMA RowsNext ==
  ASSUME CallsOK, SettingsOK, TemplatesOK, RanksOK, BadgesOK, MembersOK, OffersOK, [Next]_pageVars
  PROVE  RanksOK' /\ BadgesOK' /\ MembersOK' /\ OffersOK'
<1>1. GroupsGrow
  BY GroupsStay DEF GroupsGrow
<1>2. CASE UNCHANGED <<groups, stats, ranks, badges, offers, gone, pc, call>>
  BY <1>2, RowsSame
<1>3. CASE \E r \in Requests : CallStep(r) /\ GoneGrows
  BY <1>1, <1>3, RowsStep
<1>4. QED
  BY <1>2, <1>3 DEF Next, GoneGrows, TimePasses, pageVars, pageRows, badgeRows, templateRows,
     members, calls

-----------------------------------------------------------------------------
(* The automatic ranks: the best one for the points, unless the group is   *)
(* about to be recalculated or the member's row was written from what had  *)
(* changed; and what the calls in progress are going to write is the best  *)
(* one too, and what they have read again is what there still is, unless   *)
(* it is marked to be out of date.                                         *)
SettledRow(g, s) ==
  (/\ stats[g][s] # NoRow /\ stats[g][s].auto
   /\ <<g, s>> \notin blurred /\ ~Recalculating(g))
  => Best(g, stats[g][s].rank, stats[g][s].points)

(* A badge given or taken computes the rank anew, a new limit of lives     *)
(* writes the one that was read.                                           *)
Computing == {"join", "award", "awardWrite", "revoke", "revokeWrite"}
Copying == {"capSave", "capWrite"}

DraftBest(step, c) ==
  /\ step \in Computing /\ ~c.old => \A s \in DOMAIN c.rows :
       c.rows[s].auto => Best(c.group, c.rows[s].rank, c.rows[s].points)
  /\ step \in Copying /\ ~c.old /\ ~Recalculating(c.group) => \A s \in DOMAIN c.rows :
       c.rows[s].auto /\ <<c.group, s>> \notin blurred
         => Best(c.group, c.rows[s].rank, c.rows[s].points)

DraftAuto(step, c) ==
  step \in Drafting \ {"join"} => \A s \in DOMAIN c.rows : c.rows[s].auto = stats[c.group][s].auto

DraftSeen(step, c) ==
  step \in Writing /\ ~c.old => \A s \in DOMAIN c.rows : c.seen[s] = stats[c.group][s]

DraftSettled(step, c) == DraftBest(step, c) /\ DraftAuto(step, c) /\ DraftSeen(step, c)

SettledOK ==
  /\ \A g \in Groups, s \in Students : SettledRow(g, s)
  /\ \A r \in Requests : DraftSettled(pc[r], call[r])

LEMMA SettledNow ==
  ASSUME RankRowsOK, MemberRowsOK, SettledOK
  PROVE  RanksSettled
<1>1. ASSUME NEW g \in Groups, NEW s \in Students, stats[g][s] # NoRow, stats[g][s].auto,
             <<g, s>> \notin blurred, ~Recalculating(g)
      PROVE  LET row == stats[g][s] IN
             \/ row.rank = NoRow /\ RankFor(g, row.points) = NoRow
             \/ /\ row.rank # NoRow /\ ranks[row.rank] # NoRow /\ RankFor(g, row.points) # NoRow
                /\ ranks[row.rank].required = ranks[RankFor(g, row.points)].required
  <2>1. PICK k, n, best : k = stats[g][s].rank /\ n = stats[g][s].points /\ best = RankFor(g, n)
    OBVIOUS
  <2>2. n \in Nat /\ Best(g, k, n)
    BY <1>1, <2>1 DEF MemberRowsOK, MemberRecord, SettledOK, SettledRow
  <2>3. Best(g, best, n)
    BY <2>1, <2>2, RankForIsBest
  <2>4. \A j \in Reached(g, n) : ranks[j] # NoRow /\ ranks[j].required \in Nat
    BY DEF Reached, RankRowsOK, RankRecord
  <2>5. \/ k = NoRow /\ best = NoRow
        \/ /\ k # NoRow /\ ranks[k] # NoRow /\ best # NoRow
           /\ ranks[k].required = ranks[best].required
    BY <2>2, <2>3, <2>4 DEF Best
  <2>6. QED  BY <2>1, <2>5
<1>2. QED  BY <1>1 DEF RanksSettled, Members

(* The ranks of a group stay, its members' marks stay, and a recalculation *)
(* that was outstanding still is, or is given up.                          *)
Calm(h) ==
  /\ \A k \in RankIds :
       \/ ranks[k] # NoRow /\ ranks[k].group = h
       \/ ranks'[k] # NoRow /\ ranks'[k].group = h
       => ranks'[k] = ranks[k]
  /\ \A s \in Students : <<h, s>> \in blurred => <<h, s>> \in blurred'
  /\ Recalculating(h) => Recalculating(h)' \/ \A s \in Students : <<h, s>> \in blurred'

LEMMA BestStays ==
  ASSUME NEW h, Calm(h), NEW k, NEW n, Best(h, k, n)
  PROVE  Best(h, k, n)'
<1>1. \A j : j \in Reached(h, n) <=> j \in Reached(h, n)'
  BY DEF Calm, Reached
<1>2. \A j \in Reached(h, n) : ranks'[j] = ranks[j]
  BY DEF Calm, Reached
<1>3. QED  BY <1>1, <1>2 DEF Best

LEMMA RecalculatingStays ==
  ASSUME NEW r \in Requests, NEW S, Moved(r, S), NEW h, Recalculating(h),
         pc[r] # "recalc" \/ call[r].group # h
  PROVE  Recalculating(h)'
  BY DEF Recalculating, Moved, Drafting, Writing

LEMMA SettledRowStays ==
  ASSUME NEW h \in Groups, NEW s \in Students, Calm(h), SettledRow(h, s),
         \/ stats'[h][s] = stats[h][s]
         \/ /\ stats[h][s] # NoRow
            /\ stats'[h][s].rank = stats[h][s].rank /\ stats'[h][s].points = stats[h][s].points
            /\ stats'[h][s].auto = stats[h][s].auto
  PROVE  SettledRow(h, s)'
<1>1. PICK k, n : k = stats[h][s].rank /\ n = stats[h][s].points
  OBVIOUS
<1>2. CASE /\ stats[h][s] # NoRow /\ stats[h][s].auto
           /\ <<h, s>> \notin blurred /\ ~Recalculating(h)
  <2>1. Best(h, k, n)
    BY <1>1, <1>2 DEF SettledRow
  <2>2. Best(h, k, n)'
    BY <2>1, BestStays
  <2>3. stats'[h][s].rank = k /\ stats'[h][s].points = n
    BY <1>1
  <2>4. QED  BY <2>2, <2>3 DEF SettledRow, Best, Reached
<1>3. CASE ~(/\ stats[h][s] # NoRow /\ stats[h][s].auto
             /\ <<h, s>> \notin blurred /\ ~Recalculating(h))
  BY <1>3 DEF SettledRow, Calm
<1>4. QED  BY <1>2, <1>3

(* Nobody's rank becomes automatic, or manual; and what a call has read    *)
(* again is not written by another.                                        *)
AutosStay == \A g \in Groups : \A s \in Members(g) : stats'[g][s].auto = stats[g][s].auto
SeenStays(c) == \A s \in DOMAIN c.rows : stats'[c.group][s] = stats[c.group][s]

LEMMA NotDrafting ==
  ASSUME NEW step, NEW c, step \notin Drafting
  PROVE  DraftSettled(step, c) /\ DraftSettled(step, c)'
  BY DEF DraftSettled, DraftBest, DraftAuto, DraftSeen, Computing, Copying, Drafting, Writing

(* A draft stays the best one while its group is calm.                     *)
LEMMA DraftBestStays ==
  ASSUME NEW step, NEW c, DraftBest(step, c), Calm(c.group), DOMAIN c.rows \subseteq Students
  PROVE  DraftBest(step, c)'
<1>1. ASSUME step \in Computing, ~c.old, NEW s \in DOMAIN c.rows, c.rows[s].auto
      PROVE  Best(c.group, c.rows[s].rank, c.rows[s].points)'
  BY <1>1, BestStays DEF DraftBest
<1>2. ASSUME step \in Copying, ~c.old, ~Recalculating(c.group)', NEW s \in DOMAIN c.rows,
             c.rows[s].auto, <<c.group, s>> \notin blurred'
      PROVE  Best(c.group, c.rows[s].rank, c.rows[s].points)'
  <2>1. s \in Students /\ <<c.group, s>> \notin blurred /\ ~Recalculating(c.group)
    BY <1>2 DEF Calm
  <2>2. Best(c.group, c.rows[s].rank, c.rows[s].points)
    BY <1>2, <2>1 DEF DraftBest
  <2>3. QED  BY <2>2, BestStays
<1>3. QED  BY <1>1, <1>2 DEF DraftBest

LEMMA DraftSettledStays ==
  ASSUME NEW step, NEW c, DraftSettled(step, c), Calm(c.group), DOMAIN c.rows \subseteq Students,
         step # "join" => c.group \in Groups /\ DOMAIN c.rows \subseteq Members(c.group),
         AutosStay, step \in Writing => SeenStays(c)
  PROVE  DraftSettled(step, c)'
<1>1. DraftBest(step, c)'
  BY DraftBestStays DEF DraftSettled
<1>2. DraftAuto(step, c)'
  BY DEF DraftSettled, DraftAuto, AutosStay
<1>3. DraftSeen(step, c)'
  BY DEF DraftSettled, DraftSeen, SeenStays
<1>4. QED  BY <1>1, <1>2, <1>3 DEF DraftSettled

LEMMA DraftGroup ==
  ASSUME MembersOK, NEW q \in Requests, pc[q] \in Drafting
  PROVE  /\ InGroup(call[q].group) /\ call[q].group \in Groups
         /\ {"group", "old", "rows"} \subseteq DOMAIN call[q]
         /\ DOMAIN call[q].rows \subseteq Students
         /\ pc[q] # "join" =>
              "seen" \in DOMAIN call[q] /\ DOMAIN call[q].rows \subseteq Members(call[q].group)
  BY DEF MembersOK, Draft, InGroup

(* What a step of another call may do to a draft.                          *)
Kept(q) ==
  /\ pc'[q] = pc[q]
  /\ \/ /\ call'[q] = call[q]
        /\ pc[q] \in Drafting => Calm(call[q].group)
        /\ pc[q] \in Writing => SeenStays(call[q])
     \/ call'[q] = call[q] /\ pc[q] \in Drafting /\ DOMAIN call[q].rows = {}
     \/ pc[q] \in Drafting /\ call'[q] = [call[q] EXCEPT !.old = TRUE]

LEMMA OtherSettled ==
  ASSUME MembersOK, SettledOK, AutosStay, NEW q \in Requests, Kept(q)
  PROVE  DraftSettled(pc[q], call[q])'
<1>1. PICK step, c, d : step = pc[q] /\ c = call[q] /\ d = call'[q]
  OBVIOUS
<1>2. pc'[q] = step
  BY <1>1 DEF Kept
<1>3. CASE step \notin Drafting
  <2>1. DraftSettled(step, d)'
    BY <1>3, NotDrafting
  <2>2. QED  BY <1>1, <1>2, <2>1
<1>4. CASE step \in Drafting
  <2>1. /\ c.group \in Groups /\ {"group", "old", "rows"} \subseteq DOMAIN c
        /\ DOMAIN c.rows \subseteq Students
        /\ step # "join" => DOMAIN c.rows \subseteq Members(c.group)
        /\ DraftSettled(step, c)
    BY <1>1, <1>4, DraftGroup DEF SettledOK
  <2>2. CASE d = c /\ Calm(c.group) /\ (step \in Writing => SeenStays(c))
    <3>1. DraftSettled(step, c)'
      BY <2>1, <2>2, DraftSettledStays
    <3>2. QED  BY <1>1, <1>2, <2>2, <3>1
  <2>3. CASE d = c /\ DOMAIN c.rows = {}
    <3>1. DraftSettled(step, c)'
      BY <2>3 DEF DraftSettled, DraftBest, DraftAuto, DraftSeen
    <3>2. QED  BY <1>1, <1>2, <2>3, <3>1
  <2>4. CASE d = [c EXCEPT !.old = TRUE]
    <3>1. d.group = c.group /\ d.rows = c.rows /\ d.old = TRUE
      BY <2>1, <2>4, MarkedOld
    <3>2. DraftAuto(step, d)'
      BY <2>1, <3>1 DEF DraftSettled, DraftAuto, AutosStay
    <3>3. DraftSettled(step, d)'
      BY <3>1, <3>2 DEF DraftSettled, DraftBest, DraftSeen
    <3>4. QED  BY <1>1, <1>2, <3>3
  <2>5. QED  BY <1>1, <1>4, <2>2, <2>3, <2>4 DEF Kept
<1>5. QED  BY <1>3, <1>4

LEMMA SettledKept ==
  ASSUME MembersOK, SettledOK, AutosStay, NEW r \in Requests, \A q \in Requests \ {r} : Kept(q),
         DraftSettled(pc[r], call[r])', \A g \in Groups, s \in Students : SettledRow(g, s)'
  PROVE  SettledOK'
  BY OtherSettled DEF SettledOK

(* A step that writes no member, while every group there is stays calm.    *)
LEMMA RowsCalm ==
  ASSUME MembersOK, SettledOK, stats' = stats, \A h : InGroup(h) => Calm(h)
  PROVE  AutosStay /\ \A g \in Groups, s \in Students : SettledRow(g, s)'
<1>1. AutosStay
  BY DEF AutosStay
<1>2. ASSUME NEW g \in Groups, NEW s \in Students
      PROVE  SettledRow(g, s)'
  <2>1. CASE stats[g][s] = NoRow
    BY <2>1 DEF SettledRow
  <2>2. CASE stats[g][s] # NoRow
    <3>1. Calm(g) /\ SettledRow(g, s)
      BY <2>2 DEF MembersOK, MemberRowsOK, SettledOK, InGroup
    <3>2. QED  BY <3>1, SettledRowStays
  <2>3. QED  BY <2>1, <2>2
<1>3. QED  BY <1>1, <1>2

LEMMA SameKept ==
  ASSUME MembersOK, stats' = stats, \A h : InGroup(h) => Calm(h), NEW q \in Requests, Same(q)
  PROVE  Kept(q)
  BY DraftGroup DEF Same, Kept, SeenStays

LEMMA QuietSettled ==
  ASSUME MembersOK, SettledOK, NEW r \in Requests, \A q \in Requests \ {r} : Same(q),
         \A h : InGroup(h) => Calm(h), pc'[r] \notin Drafting \/ Same(r), stats' = stats
  PROVE  SettledOK'
<1>1. AutosStay /\ \A g \in Groups, s \in Students : SettledRow(g, s)'
  BY RowsCalm
<1>2. \A q \in Requests \ {r} : Kept(q)
  BY SameKept
<1>3. DraftSettled(pc[r], call[r])'
  <2>1. CASE pc'[r] \notin Drafting
    <3>1. PICK step, d : step = pc'[r] /\ d = call'[r]
      OBVIOUS
    <3>2. DraftSettled(step, d)'
      BY <2>1, <3>1, NotDrafting
    <3>3. QED  BY <3>1, <3>2
  <2>2. CASE Same(r)
    BY <1>1, <2>2, SameKept, OtherSettled
  <2>3. QED  BY <2>1, <2>2
<1>4. QED  BY <1>1, <1>2, <1>3, SettledKept

(* A step that drafts.                                                     *)
LEMMA DraftedSettled ==
  ASSUME MembersOK, SettledOK, NEW r \in Requests, \A q \in Requests \ {r} : Same(q),
         \A h : Calm(h), stats' = stats, NEW step, NEW d, pc'[r] = step, call'[r] = d,
         DraftSettled(step, d), DOMAIN d.rows \subseteq Students,
         step # "join" => d.group \in Groups /\ DOMAIN d.rows \subseteq Members(d.group)
  PROVE  SettledOK'
<1>1. AutosStay /\ \A g \in Groups, s \in Students : SettledRow(g, s)'
  BY RowsCalm
<1>2. \A q \in Requests \ {r} : Kept(q)
  BY SameKept
<1>3. SeenStays(d)
  BY DEF SeenStays
<1>4. DraftSettled(step, d)'
  BY <1>1, <1>3, DraftSettledStays
<1>5. DraftSettled(pc[r], call[r])'
  BY <1>4
<1>6. QED  BY <1>1, <1>2, <1>5, SettledKept

(* What makes a group calm.                                                *)
LEMMA CalmOnes ==
  ASSUME NEW r \in Requests, NEW S, Moved(r, S), NEW h, pc[r] # "recalc",
         \A k \in RankIds :
           \/ ranks[k] # NoRow /\ ranks[k].group = h
           \/ ranks'[k] # NoRow /\ ranks'[k].group = h
           => ranks'[k] = ranks[k],
         blurred \subseteq blurred'
  PROVE  Calm(h)
  BY RecalculatingStays DEF Calm

LEMMA CompareSettled ==
  ASSUME CallsOK, MembersOK, SettledOK, NEW r \in Requests, \A h : Calm(h),
         NEW from, NEW to, Compare(r, from, to),
         <<from, to>> \in {<<"capSave", "capWrite">>, <<"award", "awardWrite">>,
                           <<"revoke", "revokeWrite">>}
  PROVE  SettledOK'
<1>1. PICK c, g, rows, seen : /\ c = call[r] /\ g = c.group /\ rows = c.rows
                              /\ seen = [s \in DOMAIN rows |-> stats[g][s]]
  OBVIOUS
<1>2. pc[r] = from /\ Goto(r, to, [c EXCEPT !.seen = seen]) /\ stats' = stats
  BY <1>1 DEF Compare, members
<1>3. PICK d : d = [c EXCEPT !.seen = seen]
  OBVIOUS
<1>4. pc'[r] = to /\ call'[r] = d /\ \A q \in Requests \ {r} : Same(q)
  BY <1>2, <1>3, CallIs
<1>5. from \in Drafting \ {"join"} /\ to # "join" /\ to \in Drafting
  BY DEF Drafting, Writing
<1>6. /\ g \in Groups /\ DOMAIN rows \subseteq Students /\ DOMAIN rows \subseteq Members(g)
      /\ {"group", "old", "rows", "seen"} \subseteq DOMAIN c
  BY <1>1, <1>2, <1>5, DraftGroup
<1>7. d.group = g /\ d.rows = rows /\ d.old = c.old /\ d.seen = seen
  BY <1>1, <1>3, <1>6
<1>8. DraftBest(from, c) /\ DraftAuto(from, c)
  BY <1>1, <1>2 DEF SettledOK, DraftSettled
<1>9. DraftBest(to, d)
  BY <1>1, <1>7, <1>8 DEF DraftBest, Computing, Copying
<1>10. DraftAuto(to, d)
  BY <1>1, <1>5, <1>7, <1>8 DEF DraftAuto
<1>11. DraftSeen(to, d)
  BY <1>1, <1>7 DEF DraftSeen
<1>12. DraftSettled(to, d) /\ DOMAIN d.rows \subseteq Students /\ d.group \in Groups
       /\ DOMAIN d.rows \subseteq Members(d.group)
  BY <1>6, <1>7, <1>9, <1>10, <1>11 DEF DraftSettled
<1>13. QED  BY <1>2, <1>4, <1>12, DraftedSettled

(* A save that is not marked leaves the ranks and points of its draft; the *)
(* saves it overtakes are marked.                                          *)
LEMMA WriteSettled ==
  ASSUME CallsOK, RanksOK, MembersOK, SettledOK, NEW r \in Requests, pc[r] \in Writing,
         WriteRows(r), Writable(call[r].rows, call[r].seen), NEW step, step \notin Drafting, NEW d,
         Overtaking(r, step, d), ranks' = ranks, groups' = groups
  PROVE  SettledOK'
<1>1. PICK c, g, rows, seen : c = call[r] /\ g = c.group /\ rows = c.rows /\ seen = c.seen
  OBVIOUS
<1>2. /\ \A h \in Groups, s \in Students : stats'[h][s] =
           IF h = g /\ s \in DOMAIN rows THEN Merged(stats[h][s], rows[s], seen[s]) ELSE stats[h][s]
      /\ blurred' = IF c.old THEN blurred \cup {<<g, s>> : s \in DOMAIN rows} ELSE blurred
  <2>1. GroupsGrow
    BY DEF GroupsGrow
  <2>2. \A h \in Groups, s \in Students : stats'[h][s] =
          IF h = call[r].group /\ s \in DOMAIN call[r].rows
          THEN Merged(stats[h][s], call[r].rows[s], call[r].seen[s]) ELSE stats[h][s]
    BY <2>1, RowsWritten
  <2>3. blurred' = IF call[r].old THEN blurred \cup {<<call[r].group, s>> : s \in DOMAIN call[r].rows}
                   ELSE blurred
    BY DEF WriteRows
  <2>4. QED  BY <1>1, <2>2, <2>3
<1>3. blurred \subseteq blurred'
  BY <1>2
<1>4. pc[r] \in Drafting \ {"join"} /\ pc[r] # "recalc"
  BY DEF Drafting, Writing
<1>5. /\ g \in Groups /\ DOMAIN rows \subseteq Students /\ DOMAIN rows \subseteq Members(g)
      /\ DraftSettled(pc[r], c) /\ \A s \in DOMAIN rows : rows[s] \in MemberRecord
  <2>1. /\ g \in Groups /\ DOMAIN rows \subseteq Students /\ DOMAIN rows \subseteq Members(g)
        /\ DraftSettled(pc[r], c)
    BY <1>1, <1>4, DraftGroup DEF SettledOK
  <2>2. Draft(r)
    BY DEF MembersOK
  <2>3. QED  BY <1>1, <1>4, <2>1, <2>2 DEF Draft, DraftRow
<1>6. /\ pc'[r] = step
      /\ \A q \in Requests \ {r} :
           /\ pc'[q] = pc[q]
           /\ call'[q] = IF pc[q] \in Writing /\ call[q].group = g
                            /\ DOMAIN call[q].rows \cap DOMAIN rows # {}
                         THEN [call[q] EXCEPT !.old = TRUE] ELSE call[q]
  BY <1>1, OvertakingIs
<1>7. \A h : Calm(h)
  <2>1. Moved(r, {step})
    BY OvertakingMoves
  <2>2. QED  BY <1>3, <1>4, <2>1, CalmOnes
<1>8. ASSUME NEW s \in DOMAIN rows
      PROVE  /\ s \in Students /\ stats'[g][s].auto = stats[g][s].auto
             /\ stats'[g][s].rank = Differing(rows[s].rank, seen[s].rank, stats[g][s].rank)
             /\ stats'[g][s].points = Differing(rows[s].points, seen[s].points, stats[g][s].points)
  <2>1. s \in Students /\ stats[g][s] \in MemberRecord /\ rows[s] \in MemberRecord
    BY <1>5, MemberIs DEF Members
  <2>2. stats'[g][s] = Merged(stats[g][s], rows[s], seen[s])
    BY <1>2, <1>5, <2>1
  <2>3. QED  BY <2>1, <2>2, MergedIs
<1>9. AutosStay
  <2>1. ASSUME NEW h \in Groups, NEW s \in Members(h)
        PROVE  stats'[h][s].auto = stats[h][s].auto
    BY <1>2, <1>8 DEF Members
  <2>2. QED  BY <2>1 DEF AutosStay
<1>10. ASSUME NEW q \in Requests \ {r} PROVE Kept(q)
  <2>1. CASE /\ pc[q] \in Writing /\ call[q].group = g
             /\ DOMAIN call[q].rows \cap DOMAIN rows # {}
    BY <1>6, <2>1 DEF Kept, Drafting
  <2>2. CASE ~(/\ pc[q] \in Writing /\ call[q].group = g
               /\ DOMAIN call[q].rows \cap DOMAIN rows # {})
    <3>1. pc'[q] = pc[q] /\ call'[q] = call[q]
      BY <1>6, <2>2
    <3>2. ASSUME pc[q] \in Writing PROVE SeenStays(call[q])
      <4>1. pc[q] \in Drafting
        BY <3>2 DEF Drafting
      <4>2. call[q].group \in Groups /\ DOMAIN call[q].rows \subseteq Students
        BY <4>1, DraftGroup
      <4>3. QED  BY <1>2, <2>2, <3>2, <4>2 DEF SeenStays
    <3>3. QED  BY <1>7, <3>1, <3>2 DEF Kept
  <2>3. QED  BY <2>1, <2>2
<1>11. ASSUME NEW h \in Groups, NEW s \in Students PROVE SettledRow(h, s)'
  <2>1. CASE h = g /\ s \in DOMAIN rows
    <3>1. PICK new : new = stats'[g][s]
      OBVIOUS
    <3>2. ASSUME new.auto, <<g, s>> \notin blurred', ~Recalculating(g)'
          PROVE  Best(g, new.rank, new.points)'
      <4>1. ~c.old /\ <<g, s>> \notin blurred /\ ~Recalculating(g)
        BY <1>2, <1>7, <2>1, <3>2 DEF Calm
      <4>2. seen[s] = stats[g][s] /\ rows[s].auto = stats[g][s].auto
        BY <1>1, <1>4, <1>5, <2>1, <4>1 DEF DraftSettled, DraftSeen, DraftAuto
      <4>3. /\ rows[s].auto
            /\ new.rank = rows[s].rank /\ new.points = rows[s].points
        BY <1>8, <2>1, <3>1, <3>2, <4>2 DEF Differing
      <4>4. Best(g, rows[s].rank, rows[s].points)
        <5>1. DraftBest(pc[r], c) /\ pc[r] \in Computing \cup Copying
          BY <1>5 DEF DraftSettled, Writing, Computing, Copying
        <5>2. QED  BY <1>1, <2>1, <4>1, <4>3, <5>1 DEF DraftBest
      <4>5. Best(g, rows[s].rank, rows[s].points)'
        BY <1>7, <4>4, BestStays
      <4>6. QED  BY <4>3, <4>5
    <3>3. QED  BY <2>1, <3>1, <3>2 DEF SettledRow, Best, Reached, Recalculating
  <2>2. CASE ~(h = g /\ s \in DOMAIN rows)
    <3>1. stats'[h][s] = stats[h][s]
      BY <1>2, <2>2
    <3>2. QED  BY <1>7, <3>1, SettledRowStays DEF SettledOK
  <2>3. QED  BY <2>1, <2>2
<1>12. DraftSettled(pc[r], call[r])'
  <2>1. PICK e : e = call'[r]
    OBVIOUS
  <2>2. DraftSettled(step, e)'
    BY NotDrafting
  <2>3. QED  BY <1>6, <2>1, <2>2
<1>13. QED  BY <1>9, <1>10, <1>11, <1>12, SettledKept

(* The steps that compute rows: the ranks they draft are the best ones.    *)
LEMMA CapReadSettled ==
  ASSUME CallsOK, MembersOK, SettledOK, NEW r \in Requests, CapRead(r), \A h : Calm(h)
  PROVE  SettledOK'
<1>1. stats' = stats /\ pc[r] = "capRead"
  BY DEF CapRead, members
<1>2. PICK g, n, tell : g = call[r].group /\ n = call[r].sent.lives /\ tell = call[r].tell
  OBVIOUS
<1>3. PICK above : above = {s \in Members(g) : stats[g][s].lives > n}
  OBVIOUS
<1>4. PICK rows : rows = [s \in above |-> [stats[g][s] EXCEPT !.lives = n]]
  OBVIOUS
<1>5. PICK d : d = [group |-> g, old |-> FALSE, tell |-> tell, seen |-> <<>>, rows |-> rows]
  OBVIOUS
<1>6. Done(r) \/ Goto(r, "notify", d) \/ Goto(r, "capSave", d)
  BY <1>2, <1>3, <1>4, <1>5 DEF CapRead
<1>7. CASE Done(r) \/ Goto(r, "notify", d)
  <2>1. pc'[r] \notin Drafting /\ \A q \in Requests \ {r} : Same(q)
    BY <1>7, CallIs DEF Drafting, Writing
  <2>2. QED  BY <1>1, <2>1, QuietSettled
<1>8. CASE Goto(r, "capSave", d)
  <2>1. pc'[r] = "capSave" /\ call'[r] = d /\ \A q \in Requests \ {r} : Same(q)
    BY <1>8, CallIs
  <2>2. d.group = g /\ d.rows = rows /\ DOMAIN rows = above
    BY <1>4, <1>5
  <2>3. g \in Groups /\ InGroup(g) /\ above \subseteq Members(g) /\ above \subseteq Students
    BY <1>1, <1>2, <1>3 DEF MembersOK, Draft, InGroup, Members
  <2>4. ASSUME NEW s \in above
        PROVE  /\ s \in Students /\ stats[g][s] # NoRow
               /\ rows[s].rank = stats[g][s].rank /\ rows[s].points = stats[g][s].points
               /\ rows[s].auto = stats[g][s].auto
    <3>1. s \in Students /\ stats[g][s] # NoRow
      BY <2>3 DEF Members
    <3>2. stats[g][s] \in MemberRecord
      BY <2>3, <3>1 DEF MembersOK, MemberRowsOK
    <3>3. QED  BY <1>4, <3>1, <3>2 DEF MemberRecord
  <2>5. DraftBest("capSave", d)
    <3>1. ASSUME ~Recalculating(g), NEW s \in above, rows[s].auto, <<g, s>> \notin blurred
          PROVE  Best(g, rows[s].rank, rows[s].points)
      BY <2>3, <2>4, <3>1 DEF SettledOK, SettledRow
    <3>2. QED  BY <2>2, <3>1 DEF DraftBest, Computing
  <2>6. DraftAuto("capSave", d) /\ DraftSeen("capSave", d)
    BY <2>2, <2>4 DEF DraftAuto, DraftSeen, Writing
  <2>7. DraftSettled("capSave", d)
    BY <2>5, <2>6 DEF DraftSettled
  <2>8. QED  BY <1>1, <2>1, <2>2, <2>3, <2>7, DraftedSettled
<1>9. QED  BY <1>6, <1>7, <1>8

LEMMA JoinReadSettled ==
  ASSUME CallsOK, RanksOK, MembersOK, SettledOK, NEW r \in Requests, JoinRead(r), \A h : Calm(h)
  PROVE  SettledOK'
<1>1. PICK g, s, lives :
        Begin(r, "join", [group |-> g, old |-> FALSE, rows |-> [x \in {s} |->
          [lives |-> lives, points |-> 0, coins |-> 0, rank |-> RankFor(g, 0), auto |-> TRUE]]])
        /\ s \in Students
  <2>1. PICK c \in Callers, g \in Groups : ScopedId(c, "student") # NoRow
          /\ Begin(r, "join", [group |-> g, old |-> FALSE,
               rows |-> [x \in {ScopedId(c, "student")} |->
                         [lives |-> IF groups[g].lives # Unlimited /\ groups[g].lives < groups[g].starting
                                    THEN groups[g].lives ELSE groups[g].starting,
                          points |-> 0, coins |-> 0, rank |-> RankFor(g, 0),
                          auto |-> TRUE]]])
    BY DEF JoinRead
  <2>2. ScopedId(c, "student") \in Students
    BY <2>1, AccountOf
  <2>3. QED  BY <2>1, <2>2
<1>2. PICK k, row, rows, d :
        /\ k = RankFor(g, 0)
        /\ row = [lives |-> lives, points |-> 0, coins |-> 0, rank |-> k, auto |-> TRUE]
        /\ rows = [x \in {s} |-> row] /\ d = [group |-> g, old |-> FALSE, rows |-> rows]
  OBVIOUS
<1>3. pc'[r] = "join" /\ call'[r] = d /\ (\A q \in Requests \ {r} : Same(q)) /\ stats' = stats
  BY <1>1, <1>2, CallIs DEF JoinRead, members
<1>4. d.group = g /\ d.rows = rows /\ DOMAIN rows = {s} /\ rows[s].rank = k /\ rows[s].points = 0
  BY <1>2
<1>5. Best(g, k, 0)
  BY <1>2, RankForIsBest DEF RanksOK
<1>6. DraftBest("join", d) /\ DraftAuto("join", d) /\ DraftSeen("join", d)
  BY <1>4, <1>5 DEF DraftBest, DraftAuto, DraftSeen, Copying, Writing
<1>7. DraftSettled("join", d) /\ DOMAIN d.rows \subseteq Students
  BY <1>1, <1>4, <1>6 DEF DraftSettled
<1>8. QED  BY <1>3, <1>7, DraftedSettled

(* What has been computed joins the group: nobody had read a row of it.    *)
LEMMA JoinWriteSettled ==
  ASSUME CallsOK, MembersOK, SettledOK, NEW r \in Requests, JoinWrite(r), \A h : Calm(h)
  PROVE  SettledOK'
<1>1. pc[r] = "join" /\ pc'[r] = "idle" /\ \A q \in Requests \ {r} : Same(q)
  BY CallIs DEF JoinWrite
<1>2. "join" \in Drafting /\ "idle" \notin Drafting
  BY DEF Drafting, Writing
<1>3. CASE stats' = stats
  BY <1>1, <1>2, <1>3, QuietSettled
<1>4. CASE stats' # stats
  <2>1. PICK x \in DOMAIN call[r].rows :
          /\ stats[call[r].group][x] = NoRow
          /\ stats' = [stats EXCEPT ![call[r].group][x] = call[r].rows[x]]
          /\ blurred' = IF call[r].old THEN blurred \cup {<<call[r].group, x>>} ELSE blurred
    BY <1>4 DEF JoinWrite, members
  <2>2. PICK c, g, row : c = call[r] /\ g = c.group /\ row = c.rows[x]
    OBVIOUS
  <2>3. g \in Groups /\ x \in Students /\ stats[g][x] = NoRow
    BY <1>1, <1>2, <2>1, <2>2, DraftGroup
  <2>4. DraftBest("join", c)
    BY <1>1, <2>2 DEF SettledOK, DraftSettled
  <2>5. \A h \in Groups, s \in Students :
          stats'[h][s] = IF h = g /\ s = x THEN row ELSE stats[h][s]
    BY <2>1, <2>2, <2>3 DEF MembersOK, MemberRowsOK
  <2>6. AutosStay
    BY <2>3, <2>5 DEF AutosStay, Members
  <2>7. ASSUME NEW q \in Requests \ {r} PROVE Kept(q)
    <3>1. ASSUME pc[q] \in Writing PROVE SeenStays(call[q])
      <4>1. pc[q] \in Drafting /\ pc[q] # "join"
        BY <3>1 DEF Drafting, Writing
      <4>2. call[q].group \in Groups /\ DOMAIN call[q].rows \subseteq Members(call[q].group)
        BY <4>1, DraftGroup
      <4>3. QED  BY <2>3, <2>5, <4>2 DEF SeenStays, Members
    <3>2. QED  BY <1>1, <3>1 DEF Kept, Same
  <2>8. ASSUME row.auto, <<g, x>> \notin blurred' PROVE Best(g, row.rank, row.points)'
    <3>1. ~c.old
      BY <2>1, <2>2, <2>8
    <3>2. Best(g, row.rank, row.points)
      BY <2>1, <2>2, <2>4, <2>8, <3>1 DEF DraftBest, Computing
    <3>3. QED  BY <3>2, BestStays
  <2>9. ASSUME NEW h \in Groups, NEW s \in Students PROVE SettledRow(h, s)'
    <3>1. CASE h = g /\ s = x
      <4>1. stats'[h][s] = row
        BY <2>5, <3>1
      <4>2. QED  BY <2>8, <3>1, <4>1 DEF SettledRow, Best, Reached
    <3>2. CASE ~(h = g /\ s = x)
      <4>1. stats'[h][s] = stats[h][s]
        BY <2>5, <3>2
      <4>2. QED  BY <4>1, SettledRowStays DEF SettledOK
    <3>3. QED  BY <3>1, <3>2
  <2>10. DraftSettled(pc[r], call[r])'
    <3>1. PICK step, e : step = pc'[r] /\ e = call'[r]
      OBVIOUS
    <3>2. DraftSettled(step, e)'
      BY <1>1, <1>2, <3>1, NotDrafting
    <3>3. QED  BY <3>1, <3>2
  <2>11. QED  BY <2>6, <2>7, <2>9, <2>10, SettledKept
<1>5. QED  BY <1>3, <1>4

LEMMA GroupStepSettled ==
  ASSUME CallsOK, SettingsOK, RanksOK, MembersOK, SettledOK, NEW r \in Requests, GroupStep(r)
  PROVE  SettledOK'
<1>1. Moved(r, GroupSteps) /\ ranks' = ranks /\ pc[r] # "recalc" /\ blurred \subseteq blurred'
  <2>1. Moved(r, GroupSteps) /\ pc[r] # "recalc" /\ ranks' = ranks
    BY GroupMoves, ServiceGuards DEF GroupStep, CreateGroup, ConfigRead, ConfigWrite, CapRead,
       CapCompare, CapWrite, Compare, JoinRead, JoinWrite, Notify, GroupSteps
  <2>2. blurred \subseteq blurred'
    BY DEF GroupStep, CreateGroup, ConfigRead, ConfigWrite, CapRead, CapCompare, CapWrite, Compare,
       JoinRead, JoinWrite, Notify, members, WriteRows
  <2>3. QED  BY <2>1, <2>2
<1>2. \A h : Calm(h)
  BY <1>1, CalmOnes
<1>3. CASE CreateGroup(r)
  BY <1>2, <1>3, QuietSettled, CallIs DEF CreateGroup, members
<1>4. CASE ConfigRead(r) \/ ConfigWrite(r) \/ Notify(r)
  <2>1. /\ stats' = stats /\ pc'[r] \in {"config", "capRead", "notify", "idle"}
        /\ \A q \in Requests \ {r} : Same(q)
    BY <1>4, CallIs DEF ConfigRead, ConfigWrite, Notify, members
  <2>2. QED  BY <1>2, <2>1, QuietSettled DEF Drafting, Writing
<1>5. CASE CapWrite(r)
  <2>1. pc[r] \in Writing /\ groups' = groups /\ ranks' = ranks
    BY <1>5 DEF CapWrite, Writing
  <2>2. CASE Done(r) /\ stats' = stats
    BY <1>2, <2>2, CallIs, QuietSettled DEF Drafting, Writing
  <2>3. CASE ~(Done(r) /\ stats' = stats)
    <3>1. PICK step, d : /\ WriteRows(r) /\ Writable(call[r].rows, call[r].seen)
                         /\ step \in {"idle", "notify"} /\ Overtaking(r, step, d)
      BY <1>5, <2>3 DEF CapWrite, members
    <3>2. step \notin Drafting
      BY <3>1 DEF Drafting, Writing
    <3>3. QED  BY <2>1, <3>1, <3>2, WriteSettled
  <2>4. QED  BY <2>2, <2>3
<1>6. QED
  BY <1>2, <1>3, <1>4, <1>5, CapReadSettled, CompareSettled, JoinReadSettled, JoinWriteSettled
  DEF GroupStep, CapCompare

(* A rank is written: its group is about to be recalculated, and what was  *)
(* drafted from the ranks is marked.                                       *)
LEMMA Outdates ==
  ASSUME CallsOK, MembersOK, NEW r \in Requests, NEW g, NEW step, NEW c, Outdated(r, g, step, c),
         \A h : h # g => Calm(h), \A h \in Groups, s \in Students : h # g => stats'[h][s] = stats[h][s]
  PROVE  \A q \in Requests \ {r} : Kept(q)
<1> SUFFICES ASSUME NEW q \in Requests \ {r} PROVE Kept(q)
  OBVIOUS
<1>1. /\ pc'[q] = pc[q]
      /\ call'[q] = IF pc[q] \in Drafting /\ call[q].group = g /\ DOMAIN call[q].rows \cap Students # {}
                    THEN [call[q] EXCEPT !.old = TRUE] ELSE call[q]
  BY OutdatedIs
<1>2. CASE pc[q] \notin Drafting
  BY <1>1, <1>2 DEF Kept, Drafting
<1>3. CASE pc[q] \in Drafting /\ call[q].group = g
  <2>1. DOMAIN call[q].rows \subseteq Students
    BY <1>3, DraftGroup
  <2>2. CASE DOMAIN call[q].rows = {}
    BY <1>1, <2>2, <1>3 DEF Kept
  <2>3. CASE DOMAIN call[q].rows # {}
    <3>1. call'[q] = [call[q] EXCEPT !.old = TRUE]
      BY <1>1, <1>3, <2>1, <2>3
    <3>2. QED  BY <1>1, <1>3, <3>1 DEF Kept
  <2>4. QED  BY <2>2, <2>3
<1>4. CASE pc[q] \in Drafting /\ call[q].group # g
  <2>1. call[q].group \in Groups /\ DOMAIN call[q].rows \subseteq Students
    BY <1>4, DraftGroup
  <2>2. SeenStays(call[q]) /\ Calm(call[q].group)
    BY <1>4, <2>1 DEF SeenStays
  <2>3. QED  BY <1>1, <1>4, <2>2 DEF Kept
<1>5. QED  BY <1>2, <1>3, <1>4

LEMMA RanksChangedSettled ==
  ASSUME CallsOK, MembersOK, SettledOK, NEW r \in Requests, NEW g, NEW c,
         Outdated(r, g, "recalc", c), c.group = g, pc[r] # "recalc", blurred' = blurred,
         \A k \in RankIds :
           \/ ranks'[k] = ranks[k]
           \/ /\ ranks[k] # NoRow => ranks[k].group = g
              /\ ranks'[k] # NoRow => ranks'[k].group = g,
         \A h \in Groups, s \in Students : h # g => stats'[h][s] = stats[h][s], AutosStay
  PROVE  SettledOK'
<1>1. pc'[r] = "recalc" /\ call'[r] = c /\ Moved(r, {"recalc"})
  BY OutdatedIs, OutdatedMoves
<1>2. Recalculating(g)'
  BY <1>1 DEF Recalculating
<1>3. \A h : h # g => Calm(h)
  BY <1>1, CalmOnes
<1>4. ASSUME NEW h \in Groups, NEW s \in Students PROVE SettledRow(h, s)'
  <2>1. CASE h = g
    BY <1>2, <2>1 DEF SettledRow, Recalculating
  <2>2. CASE h # g
    BY <1>3, <2>2, SettledRowStays DEF SettledOK
  <2>3. QED  BY <2>1, <2>2
<1>5. \A q \in Requests \ {r} : Kept(q)
  BY <1>3, Outdates
<1>6. DraftSettled(pc[r], call[r])'
  <2>1. "recalc" \notin Drafting
    BY DEF Drafting, Writing
  <2>2. DraftSettled("recalc", c)'
    BY <2>1, NotDrafting
  <2>3. QED  BY <1>1, <2>2
<1>7. QED  BY <1>4, <1>5, <1>6, SettledKept

LEMMA RecalculateSettled ==
  ASSUME CallsOK, RanksOK, MembersOK, SettledOK, NEW r \in Requests, Recalculate(r)
  PROVE  SettledOK'
<1>1. PICK g, then, c : /\ g = call[r].group /\ then = call[r].then /\ Outdated(r, g, then, c)
                        /\ pc[r] = "recalc" /\ ranks' = ranks
                        /\ stats' = [stats EXCEPT ![g] = [s \in Students |-> Recalculated(g, stats[g][s])]]
                        /\ blurred' = {m \in blurred : m[1] # g}
  BY DEF Recalculate
<1>2. InGroup(g) /\ then \in {"idle", "notify"}
  BY <1>1 DEF RanksOK, RankCall, CallsOK
<1>3. pc'[r] = then /\ call'[r] = c /\ Moved(r, {"idle", "notify"})
  BY <1>1, <1>2, OutdatedIs, OutdatedMoves
<1>4. \A h : h # g => Calm(h)
  <2>1. ASSUME NEW h, h # g, Recalculating(h) PROVE Recalculating(h)'
    BY <1>1, <1>3, <2>1, RecalculatingStays
  <2>2. \A h, s : h # g /\ <<h, s>> \in blurred => <<h, s>> \in blurred'
    BY <1>1
  <2>3. QED  BY <1>1, <2>1, <2>2 DEF Calm
<1>5. \A h \in Groups, s \in Students :
        stats'[h][s] = IF h = g THEN Recalculated(g, stats[g][s]) ELSE stats[h][s]
  BY <1>1, <1>2 DEF MembersOK, MemberRowsOK, InGroup
<1>6. ASSUME NEW s \in Members(g)
      PROVE  /\ stats'[g][s].auto = stats[g][s].auto /\ stats[g][s].points \in Nat
             /\ stats[g][s].auto =>
                  /\ stats'[g][s].rank = RankFor(g, stats[g][s].points)
                  /\ stats'[g][s].points = stats[g][s].points
  <2>1. s \in Students /\ g \in Groups /\ stats[g][s] # NoRow /\ stats[g][s] \in MemberRecord
    BY <1>2, MemberIs DEF Members, InGroup
  <2>2. PICK k : k = RankFor(g, stats[g][s].points)
    OBVIOUS
  <2>3. stats'[g][s] = IF stats[g][s].auto THEN [stats[g][s] EXCEPT !.rank = k] ELSE stats[g][s]
    BY <1>5, <2>1, <2>2 DEF Recalculated
  <2>4. QED  BY <2>1, <2>2, <2>3 DEF MemberRecord
<1>7. AutosStay
  BY <1>5, <1>6 DEF AutosStay, Members
<1>8. ASSUME NEW s \in Students PROVE SettledRow(g, s)'
  <2>1. CASE stats[g][s] # NoRow /\ stats[g][s].auto
    <3>1. PICK k, n : k = RankFor(g, stats[g][s].points) /\ n = stats[g][s].points
      OBVIOUS
    <3>2. stats'[g][s].rank = k /\ stats'[g][s].points = n /\ n \in Nat
      BY <1>6, <2>1, <3>1 DEF Members
    <3>3. Best(g, k, n)
      BY <3>1, <3>2, RankForIsBest DEF RanksOK
    <3>4. QED  BY <1>1, <3>2, <3>3 DEF SettledRow, Best, Reached
  <2>2. CASE stats[g][s] = NoRow
    BY <1>2, <1>5, <2>2 DEF Recalculated, SettledRow, InGroup
  <2>3. CASE stats[g][s] # NoRow /\ ~stats[g][s].auto
    BY <1>2, <1>5, <2>3 DEF Recalculated, SettledRow, InGroup
  <2>4. QED  BY <2>1, <2>2, <2>3
<1>9. ASSUME NEW h \in Groups, NEW s \in Students PROVE SettledRow(h, s)'
  <2>1. CASE h = g
    BY <1>8, <2>1
  <2>2. CASE h # g
    <3>1. stats'[h][s] = stats[h][s]
      BY <1>5, <2>2
    <3>2. QED  BY <1>4, <2>2, <3>1, SettledRowStays DEF SettledOK
  <2>3. QED  BY <2>1, <2>2
<1>10. \A q \in Requests \ {r} : Kept(q)
  BY <1>1, <1>4, <1>5, Outdates
<1>11. DraftSettled(pc[r], call[r])'
  <2>1. then \notin Drafting
    BY <1>2 DEF Drafting, Writing
  <2>2. DraftSettled(then, c)'
    BY <2>1, NotDrafting
  <2>3. QED  BY <1>3, <2>2
<1>12. QED  BY <1>7, <1>9, <1>10, <1>11, SettledKept

LEMMA RevokeReadSettled ==
  ASSUME CallsOK, RanksOK, MembersOK, SettledOK, NEW r \in Requests, RevokeRead(r), \A h : Calm(h)
  PROVE  SettledOK'
<1>1. PICK g, d, rows : g = call[r].group /\ d = call'[r] /\ rows = d.rows
  OBVIOUS
<1>2. /\ pc'[r] = "revoke" /\ call'[r] = d /\ stats' = stats /\ d.group = g /\ InGroup(g)
      /\ DOMAIN rows \subseteq Members(g)
      /\ \A s \in DOMAIN rows : BadgesHeld(r, s) \in Nat /\ rows[s] = Revoked(g, stats[g][s], BadgesHeld(r, s))
  BY <1>1, RevokeReadIs
<1>3. \A q \in Requests \ {r} : Same(q)
  BY CallIs DEF RevokeRead
<1>4. ASSUME NEW s \in DOMAIN rows
      PROVE  /\ rows[s].auto = stats[g][s].auto /\ s \in Students
             /\ Best(g, rows[s].rank, rows[s].points)
  <2>1. s \in Students /\ stats[g][s] \in MemberRecord
    BY <1>2, MemberIs DEF Members, InGroup
  <2>2. PICK k, n : k = RankFor(g, stats[g][s].points) /\ n = stats[g][s].points
    OBVIOUS
  <2>3. n \in Nat /\ rows[s].rank = k /\ rows[s].points = n
    BY <1>2, <2>1, <2>2, RevokedIs DEF MemberRecord
  <2>4. Best(g, k, n)
    BY <2>2, <2>3, RankForIsBest DEF RanksOK
  <2>5. rows[s].auto = stats[g][s].auto
    BY <1>2, <2>1, RevokedIs
  <2>6. QED  BY <2>1, <2>3, <2>4, <2>5
<1>5. DraftBest("revoke", d) /\ DraftAuto("revoke", d) /\ DraftSeen("revoke", d)
  BY <1>1, <1>2, <1>4 DEF DraftBest, DraftAuto, DraftSeen, Copying, Writing
<1>6. DraftSettled("revoke", d) /\ DOMAIN d.rows \subseteq Students /\ d.group \in Groups
      /\ DOMAIN d.rows \subseteq Members(d.group)
  BY <1>1, <1>2, <1>4, <1>5 DEF DraftSettled, InGroup
<1>7. QED  BY <1>2, <1>3, <1>6, DraftedSettled

LEMMA AwardReadSettled ==
  ASSUME CallsOK, RanksOK, MembersOK, SettledOK, NEW r \in Requests, AwardRead(r), \A h : Calm(h)
  PROVE  SettledOK'
<1>1. PICK g, d, rows, s : g = call[r].group /\ d = call'[r] /\ rows = d.rows /\ s = call[r].student
  OBVIOUS
<1>2. /\ pc'[r] = "award" /\ call'[r] = d /\ stats' = stats /\ d.group = g /\ InGroup(g)
      /\ DOMAIN rows = {s} /\ s \in Members(g)
      /\ rows[s] = Given(g, stats[g][s]) \/ rows[s] = Revoked(g, stats[g][s], 1)
  BY <1>1, AwardReadIs
<1>3. \A q \in Requests \ {r} : Same(q)
  BY CallIs DEF AwardRead
<1>4. s \in Students /\ stats[g][s] \in MemberRecord
  BY <1>2, MemberIs DEF Members, InGroup
<1>5. PICK n \in Nat : rows[s].points = n /\ rows[s].rank = RankFor(g, n)
  <2>1. stats[g][s].points \in Nat /\ stats[g][s].points + Reward \in Nat
    BY <1>4, RanksAssumption DEF MemberRecord
  <2>2. QED  BY <1>2, <1>4, <2>1, GivenIs, RevokedIs
<1>6. Best(g, rows[s].rank, rows[s].points)
  <2>1. PICK k : k = RankFor(g, n)
    OBVIOUS
  <2>2. Best(g, k, n)
    BY <2>1, RankForIsBest DEF RanksOK
  <2>3. QED  BY <1>5, <2>1, <2>2
<1>7. rows[s].auto = stats[g][s].auto
  BY <1>2, <1>4, GivenIs, RevokedIs
<1>8. DraftBest("award", d) /\ DraftAuto("award", d) /\ DraftSeen("award", d)
  BY <1>1, <1>2, <1>6, <1>7 DEF DraftBest, DraftAuto, DraftSeen, Copying, Writing
<1>9. DraftSettled("award", d) /\ DOMAIN d.rows \subseteq Students /\ d.group \in Groups
      /\ DOMAIN d.rows \subseteq Members(d.group)
  BY <1>1, <1>2, <1>4, <1>8 DEF DraftSettled, InGroup
<1>10. QED  BY <1>2, <1>3, <1>9, DraftedSettled

LEMMA RankStepSettled ==
  ASSUME CallsOK, RanksOK, BadgesOK, MembersOK, SettledOK, NEW r \in Requests, RankStep(r)
  PROVE  SettledOK'
<1>1. Moved(r, RankSteps)
  BY RankMoves
<1>2. ASSUME ranks' = ranks, blurred \subseteq blurred', pc[r] # "recalc"
      PROVE  \A h : Calm(h)
  BY <1>1, <1>2, CalmOnes
<1>3. CASE CreateRank(r)
  <2>1. PICK g \in Groups, k \in RankIds, n \in Thresholds :
          /\ Fresh(ranks, k) /\ ranks' = [ranks EXCEPT ![k] = [group |-> g, required |-> n]]
          /\ Outdated(r, g, "recalc", [group |-> g, then |-> "notify"]) /\ pc[r] = "idle"
          /\ stats' = stats /\ blurred' = blurred
    BY <1>3 DEF CreateRank, members
  <2>2. \A j \in RankIds :
          \/ ranks'[j] = ranks[j]
          \/ /\ ranks[j] # NoRow => ranks[j].group = g
             /\ ranks'[j] # NoRow => ranks'[j].group = g
    BY <2>1 DEF Fresh, RanksOK, RankRowsOK
  <2>3. PICK c : c = [group |-> g, then |-> "notify"]
    OBVIOUS
  <2>4. Outdated(r, g, "recalc", c) /\ c.group = g
    BY <2>1, <2>3
  <2>5. AutosStay
    BY <2>1 DEF AutosStay
  <2>6. QED  BY <2>1, <2>2, <2>4, <2>5, RanksChangedSettled
<1>4. CASE UpdateRankSave(r) \/ DeleteRank(r)
  <2>1. PICK g, k, c, row :
          /\ g = call[r].group /\ k = call[r].rank /\ c = [group |-> g, then |-> "idle"]
          /\ Outdated(r, g, "recalc", c) /\ pc[r] \in {"rankSave", "rankDelete"} /\ blurred' = blurred
          /\ ranks' = [ranks EXCEPT ![k] = row]
          /\ row = NoRow \/ (row = call[r].row /\ pc[r] = "rankSave")
    BY <1>4 DEF UpdateRankSave, AfterRankSave, DeleteRank, members
  <2>2. KnownRank(k, g) /\ (row # NoRow => row.group = g) /\ InGroup(g)
    BY <2>1 DEF RanksOK, RankCall
  <2>3. \A j \in RankIds :
          \/ ranks'[j] = ranks[j]
          \/ /\ ranks[j] # NoRow => ranks[j].group = g
             /\ ranks'[j] # NoRow => ranks'[j].group = g
    BY <2>1, <2>2 DEF KnownRank, RanksOK, RankRowsOK
  <2>4. (\A h \in Groups, s \in Students : h # g => stats'[h][s] = stats[h][s]) /\ AutosStay
    <3>1. CASE stats' = stats
      BY <3>1 DEF AutosStay
    <3>2. CASE stats' # stats
      <4>1. PICK F : /\ stats' = [stats EXCEPT ![g] = F]
                     /\ F = [s \in Students |-> IF stats[g][s] # NoRow /\ stats[g][s].rank = k
                               THEN [stats[g][s] EXCEPT !.rank = NoRow] ELSE stats[g][s]]
        BY <1>4, <2>1, <3>2 DEF UpdateRankSave, DeleteRank, members
      <4>2. \A h \in Groups : stats'[h] = IF h = g THEN F ELSE stats[h]
        BY <4>1 DEF MembersOK, MemberRowsOK
      <4>3. ASSUME NEW s \in Members(g) PROVE F[s].auto = stats[g][s].auto
        <5>1. s \in Students /\ stats[g][s] \in MemberRecord
          BY <2>2, MemberIs DEF Members, InGroup
        <5>2. QED  BY <4>1, <5>1 DEF MemberRecord
      <4>4. QED  BY <4>2, <4>3 DEF AutosStay
    <3>3. QED  BY <3>1, <3>2
  <2>5. c.group = g /\ pc[r] # "recalc"
    BY <2>1
  <2>6. QED  BY <2>1, <2>3, <2>4, <2>5, RanksChangedSettled
<1>5. CASE \/ UpdateRankRead(r) \/ DeleteRankRead(r) \/ CreateBadge(r) \/ UpdateBadgeRead(r)
           \/ DeleteBadgeRead(r) \/ ToggleBadge(r)
  <2>1. PICK step, c :
          /\ step \in {"rankSave", "rankDelete", "notify", "badgeSave", "badgeDelete", "toggle"}
          /\ Begin(r, step, c)
    <3>1. CASE UpdateRankRead(r)
      BY <3>1 DEF UpdateRankRead
    <3>2. CASE DeleteRankRead(r)
      BY <3>2 DEF DeleteRankRead
    <3>3. CASE CreateBadge(r)
      BY <3>3 DEF CreateBadge
    <3>4. CASE UpdateBadgeRead(r)
      BY <3>4 DEF UpdateBadgeRead
    <3>5. CASE DeleteBadgeRead(r)
      BY <3>5 DEF DeleteBadgeRead
    <3>6. CASE ToggleBadge(r)
      BY <3>6 DEF ToggleBadge
    <3>7. QED  BY <1>5, <3>1, <3>2, <3>3, <3>4, <3>5, <3>6
  <2>2. pc'[r] \notin Drafting /\ pc[r] = "idle" /\ \A q \in Requests \ {r} : Same(q)
    <3>1. step \notin Drafting
      BY <2>1 DEF Drafting, Writing
    <3>2. QED  BY <2>1, <3>1, CallIs
  <2>3. stats' = stats /\ ranks' = ranks /\ blurred' = blurred
    BY <1>5 DEF UpdateRankRead, DeleteRankRead, CreateBadge, UpdateBadgeRead, DeleteBadgeRead,
                ToggleBadge, members
  <2>4. QED  BY <1>2, <2>2, <2>3, QuietSettled
<1>6. CASE UpdateBadge(r)
  <2>1. /\ pc'[r] \notin Drafting /\ pc[r] # "recalc" /\ \A q \in Requests \ {r} : Same(q)
        /\ ranks' = ranks /\ blurred' = blurred /\ stats' = stats
    BY <1>6, CallIs DEF UpdateBadge, Drafting, Writing, members, Same
  <2>2. QED  BY <1>2, <2>1, QuietSettled
<1>7. CASE RevokeRead(r) \/ AwardRead(r)
  <2>1. ranks' = ranks /\ blurred' = blurred /\ pc[r] # "recalc"
    BY <1>7 DEF RevokeRead, AwardRead, members
  <2>2. QED  BY <1>2, <1>7, <2>1, RevokeReadSettled, AwardReadSettled
<1>8. CASE RevokeCompare(r) \/ AwardCompare(r)
  <2>1. ranks' = ranks /\ blurred' = blurred /\ pc[r] # "recalc"
    BY <1>8 DEF RevokeCompare, AwardCompare, Compare, members
  <2>2. QED  BY <1>2, <1>8, <2>1, CompareSettled DEF RevokeCompare, AwardCompare
<1>9. CASE DeleteBadge(r) \/ AwardWrite(r)
  <2>1. pc[r] \in Writing /\ groups' = groups /\ ranks' = ranks /\ pc[r] # "recalc"
        /\ "idle" \notin Drafting
    BY <1>9 DEF DeleteBadge, AwardWrite, Drafting, Writing
  <2>2. CASE Done(r) /\ UNCHANGED members
    BY <1>2, <2>1, <2>2, CallIs, QuietSettled DEF members
  <2>3. CASE ~(Done(r) /\ UNCHANGED members)
    <3>1. /\ WriteRows(r) /\ Writable(call[r].rows, call[r].seen)
          /\ Overtaking(r, "idle", NoCall)
      BY <1>9, <2>3 DEF DeleteBadge, AwardWrite
    <3>2. QED  BY <2>1, <3>1, WriteSettled
  <2>4. QED  BY <2>2, <2>3
<1>10. QED
  BY <1>3, <1>4, <1>5, <1>6, <1>7, <1>8, <1>9, RecalculateSettled DEF RankStep

LEMMA SettledStep ==
  ASSUME CallsOK, SettingsOK, TemplatesOK, RanksOK, BadgesOK, MembersOK, OffersOK, SettledOK,
         NEW r \in Requests, CallStep(r)
  PROVE  SettledOK'
<1>1. ASSUME NEW S, Moved(r, S), \A q \in Requests \ {r} : Same(q), S \cap Drafting = {},
             UNCHANGED <<ranks, stats, blurred>>, pc[r] # "recalc"
      PROVE  SettledOK'
  <2>1. \A h : Calm(h)
    BY <1>1, CalmOnes
  <2>2. pc'[r] \notin Drafting
    BY <1>1 DEF Moved
  <2>3. QED  BY <1>1, <2>1, <2>2, QuietSettled
<1>2. CASE StageStep(r)
  <2>1. UNCHANGED <<ranks, stats, blurred>>
    BY <1>2 DEF StageStep, CreateStage, ModifyStageRead, ModifyStageSave, RemoveStageFind,
                RemoveStage, ReorderStages, CreateActivityCheck, CreateActivity,
                ModifyActivityRead, ModifyActivitySave, RemoveCompletions, RemoveActivity,
                Complete, groupRows, members
  <2>2. QED  BY <1>1, <1>2, <2>1, StageMoves, ServiceGuards DEF StageSteps, Drafting, Writing
<1>3. CASE PostStep(r)
  <2>1. UNCHANGED <<ranks, stats, blurred>>
    BY <1>3 DEF PostStep, CreatePost, UpdatePostRead, UpdatePost, DeletePost, PostJobFind,
                PostJobPublish, Tell, members
  <2>2. QED  BY <1>1, <1>3, <2>1, PostMoves, ServiceGuards DEF PostSteps, Drafting, Writing
<1>4. CASE BacklogStep(r)
  <2>1. UNCHANGED <<ranks, stats, blurred>> /\ Moved(r, {"idle"}) /\ \A q \in Requests : Same(q)
    BY <1>4, BacklogMoves DEF members
  <2>2. QED  BY <1>1, <1>4, <2>1, ServiceGuards DEF Drafting, Writing
<1>5. CASE TemplateStep(r) /\ ~Import(r)
  <2>1. UNCHANGED <<ranks, stats, blurred>>
    BY <1>5 DEF TemplateStep, OfferCheck, OfferSave, DeleteOffer, ExportRead, ExportSave,
                TemplateRead, TemplateSave, DeleteTemplate, FavoriteCheck, FavoriteSave,
                Unfavorite, pageRows, members
  <2>2. QED  BY <1>1, <1>5, <2>1, TemplateMoves, ServiceGuards DEF TemplateSteps, Drafting, Writing
<1>6. CASE Import(r)
  <2>1. PICK g \in Groups :
          /\ groups[g] = NoRow
          /\ \A x \in RankIds :
               \/ ranks'[x] = ranks[x]
               \/ Fresh(ranks, x) /\ ranks'[x] \in RankRecord /\ ranks'[x].group = g
    BY <1>6, ImportRows DEF RanksOK, BadgesOK, OffersOK
  <2>2. /\ Moved(r, {"idle"}) /\ (\A q \in Requests : Same(q)) /\ pc[r] # "recalc"
        /\ stats' = stats /\ blurred' = blurred
    BY <1>6, CallIs, AtOnceMoves DEF Import, members
  <2>3. ASSUME NEW h, InGroup(h) PROVE Calm(h)
    BY <2>1, <2>2, <2>3, CalmOnes DEF InGroup, Fresh
  <2>4. QED  BY <2>2, <2>3, QuietSettled
<1>7. CASE Fail(r)
  <2>1. /\ Moved(r, {"idle"}) /\ \A q \in Requests \ {r} : Same(q)
        /\ ranks' = ranks /\ stats' = stats /\ blurred \subseteq blurred'
        /\ pc[r] = "recalc" => \A s \in Students : <<call[r].group, s>> \in blurred'
    BY <1>7, FailMoves DEF Fail
  <2>2. ASSUME NEW h PROVE Calm(h)
    BY <2>1, RecalculatingStays DEF Calm
  <2>3. pc'[r] \notin Drafting
    BY <2>1 DEF Moved, Drafting, Writing
  <2>4. QED  BY <2>1, <2>2, <2>3, QuietSettled
<1>8. QED
  BY <1>2, <1>3, <1>4, <1>5, <1>6, <1>7, GroupStepSettled, RankStepSettled DEF CallStep

LEMMA SettledNext ==
  ASSUME CallsOK, SettingsOK, TemplatesOK, RanksOK, BadgesOK, MembersOK, OffersOK, SettledOK,
         [Next]_pageVars
  PROVE  SettledOK'
<1>1. CASE UNCHANGED <<ranks, stats, blurred, pc, call>>
  BY <1>1 DEF SettledOK, SettledRow, DraftSettled, DraftBest, DraftAuto, DraftSeen, Best, Reached,
     Recalculating
<1>2. QED
  BY <1>1, SettledStep DEF Next, TimePasses, pageVars, pageRows, members, calls

-----------------------------------------------------------------------------
(* The invariant, and what the calls begin on.                             *)
PagesInv ==
  /\ CallsOK /\ SettingsOK /\ TemplatesOK /\ PostsOK /\ StagesOK
  /\ RanksOK /\ BadgesOK /\ MembersOK /\ OffersOK /\ SettledOK

(* What StartsAssumption says of the tables, once they are the variables.  *)
StartGroups ==
  /\ groups \in [Groups -> GroupRow \cup {NoRow}]
  /\ \A g \in There(groups) : LivesFit(groups[g].lives, groups[g].starting)
StartRanks ==
  /\ ranks \in [RankIds -> [group : There(groups), required : Nat] \cup {NoRow}]
  /\ badges \in [BadgeIds -> [group : There(groups), published : BOOLEAN] \cup {NoRow}]
StartStages ==
  /\ stages \in [StageIds -> {NoRow} \cup
       [group : There(groups), order : Nat \cup {NoRow}, shown : Visibility]]
  /\ activities \in [ActivityIds -> {NoRow} \cup [stage : There(stages), shown : BOOLEAN]]
  /\ done \in [ActivityIds -> SUBSET (There(groups) \X Students)]
  /\ \A a \in ActivityIds : done[a] # {} => activities[a] # NoRow
StartPosts ==
  /\ posts \in [PostIds -> [group : There(groups), shown : BOOLEAN, at : Times] \cup {NoRow}]
  /\ told \in [PostIds -> {"no", "yes", "missed"}]
  /\ \A p \in There(posts) : posts[p].shown => told[p] # "no"
StartOffers ==
  /\ offers \in [OfferIds -> {NoRow} \cup
       [group : There(groups), ranks : SUBSET RankIds, badges : SUBSET BadgeIds]]
  /\ \A o \in There(offers) :
       /\ \A k \in offers[o].ranks : ranks[k] # NoRow /\ ranks[k].group = offers[o].group
       /\ \A b \in offers[o].badges : badges[b] # NoRow /\ badges[b].group = offers[o].group
StartTemplates ==
  /\ DOMAIN templates = TemplateIds
  /\ \A t \in There(templates) : Whole(templates[t])
StartMembers ==
  /\ stats \in [Groups -> [Students -> {NoRow} \cup MemberRecord]]
  /\ \A g \in Groups, s \in Students : stats[g][s] # NoRow =>
       /\ g \in There(groups)
       /\ HasRank(g, stats[g][s].rank)
       /\ stats[g][s].auto => Best(g, stats[g][s].rank, stats[g][s].points)
StartCalls ==
  /\ favorites = {} /\ raced = {} /\ blurred = {} /\ gone = {}
  /\ pc = [r \in Requests |-> "idle"] /\ call = [r \in Requests |-> NoCall]

LEMMA StartTables ==
  ASSUME Init
  PROVE  /\ StartGroups /\ StartRanks /\ StartStages /\ StartPosts /\ StartOffers
         /\ StartTemplates /\ StartMembers /\ StartCalls
<1>1. PICK start \in Starts :
        /\ groups = start.groups /\ stats = start.stats /\ ranks = start.ranks
        /\ badges = start.badges /\ earned = start.earned
        /\ stages = start.stages /\ activities = start.activities /\ done = start.done
        /\ posts = start.posts /\ told = start.told
        /\ offers = start.offers /\ templates = start.templates
  BY DEF Init
<1>2. StartGroups
  BY <1>1, StartsAssumption DEF StartGroups
<1>3. StartRanks
  BY <1>1, StartsAssumption DEF StartRanks
<1>4. StartStages
  BY <1>1, StartsAssumption DEF StartStages
<1>5. StartPosts
  BY <1>1, StartsAssumption DEF StartPosts
<1>6. StartOffers
  BY <1>1, StartsAssumption DEF StartOffers
<1>7. StartTemplates
  BY <1>1, StartsAssumption DEF StartTemplates, Whole
<1>8. StartMembers
  BY <1>1, StartsAssumption DEF StartMembers, MemberRecord, HasRank, Best, Reached, There
<1>9. StartCalls
  BY DEF Init, StartCalls
<1>10. QED  BY <1>2, <1>3, <1>4, <1>5, <1>6, <1>7, <1>8, <1>9

LEMMA StartInv ==
  ASSUME Init
  PROVE  PagesInv
<1> USE StartTables
<1>1. \A r \in Requests : pc[r] = "idle"
  BY DEF StartCalls
<1>2. CallsOK
  BY <1>1 DEF CallsOK, StartCalls
<1>3. SettingsOK
  BY <1>1 DEF SettingsOK, StartGroups, StartWithinLives, There
<1>4. TemplatesOK
  BY <1>1 DEF TemplatesOK, StartTemplates, StartCalls, There
<1>5. PostsOK
  <2>1. PostRowsOK
    BY DEF PostRowsOK, StartPosts, StartGroups, There
  <2>2. PublishedAnnounced
    BY DEF PublishedAnnounced, StartPosts, There
  <2>3. QED  BY <1>1, <2>1, <2>2 DEF PostsOK, PostCall
<1>6. StagesOK
  <2>1. StageRowsOK
    BY RowsAssumption DEF StageRowsOK, StageRecord, ActivityRecord, StartStages, StartGroups, There
  <2>2. QED  BY <1>1, <2>1 DEF StagesOK, StageCall
<1>7. RanksOK
  <2>1. RankRowsOK
    BY DEF RankRowsOK, RankRecord, StartRanks, StartGroups, There
  <2>2. QED  BY <1>1, <2>1 DEF RanksOK, RankCall
<1>8. BadgesOK
  <2>1. BadgeRowsOK
    BY DEF BadgeRowsOK, BadgeRecord, StartRanks, StartGroups, There
  <2>2. QED  BY <1>1, <2>1 DEF BadgesOK, BadgeCall
<1>9. MembersOK
  <2>1. MemberRowsOK
    BY DEF MemberRowsOK, StartMembers, There
  <2>2. ASSUME NEW r \in Requests PROVE Draft(r)
    <3>1. pc[r] \notin DraftSteps
      BY <1>1 DEF DraftSteps, Drafting, Writing
    <3>2. QED  BY <3>1 DEF Draft, DraftSteps
  <2>3. QED  BY <2>1, <2>2 DEF MembersOK
<1>10. OffersOK
  <2>1. OfferRowsOK
    BY DEF OfferRowsOK, OfferRecord, PromotionsInGroup, StartOffers, StartGroups, There
  <2>2. QED  BY <1>1, <2>1 DEF OffersOK, OfferCall
<1>11. SettledOK
  <2>1. \A g \in Groups, s \in Students : SettledRow(g, s)
    BY DEF SettledRow, StartMembers
  <2>2. ASSUME NEW r \in Requests PROVE DraftSettled(pc[r], call[r])
    <3>1. pc[r] \notin Drafting
      BY <1>1 DEF Drafting, Writing
    <3>2. QED  BY <3>1, NotDrafting
  <2>3. QED  BY <2>1, <2>2 DEF SettledOK
<1>12. QED
  BY <1>2, <1>3, <1>4, <1>5, <1>6, <1>7, <1>8, <1>9, <1>10, <1>11 DEF PagesInv

LEMMA StepInv ==
  ASSUME PagesInv, [Next]_pageVars
  PROVE  PagesInv'
<1>1. /\ RankRowsOK /\ StageRowsOK /\ OfferRowsOK
      /\ \A g \in Groups, s \in Students : stats[g][s] # NoRow => groups[g] # NoRow
  BY DEF PagesInv, RanksOK, StagesOK, OffersOK, MembersOK, MemberRowsOK
<1>2. CallsOK' /\ SettingsOK' /\ TemplatesOK'
  BY <1>1, CallsStay, SettingsNext, TemplatesNext DEF PagesInv
<1>3. PostsOK' /\ StagesOK'
  BY <1>1, PostsNext, StagesNext DEF PagesInv
<1>4. RanksOK' /\ BadgesOK' /\ MembersOK' /\ OffersOK' /\ SettledOK'
  BY RowsNext, SettledNext DEF PagesInv
<1>5. QED  BY <1>2, <1>3, <1>4 DEF PagesInv

(* The invariant holds from every table the calls may begin on.            *)
THEOREM PagesInvariant == Spec => []PagesInv
<1>1. Init => PagesInv
  BY StartInv
<1>2. PagesInv /\ [Next]_pageVars => PagesInv'
  BY StepInv
<1>3. QED  BY <1>1, <1>2, PTL DEF Spec

-----------------------------------------------------------------------------
(* Starting lives never exceed the limit of the group, but where two calls *)
(* have changed the settings at once (updateGroup, updateLivesConfig).     *)
THEOREM StartsWithinLives == Spec => []StartWithinLives
<1>1. PagesInv => StartWithinLives
  BY DEF PagesInv, SettingsOK
<1>2. QED  BY <1>1, PagesInvariant, PTL

(* A post that members can see has been announced, or a call is about to   *)
(* announce it, whoever publishes it: the lecturer or the job.             *)
THEOREM PostsAnnounced == Spec => []PublishedAnnounced
<1>1. PagesInv => PublishedAnnounced
  BY DEF PagesInv, PostsOK
<1>2. QED  BY <1>1, PagesInvariant, PTL

(* Promotions are for ranks and badges of the group itself, also when the  *)
(* rank or badge goes while an offer is being saved, and after an import.  *)
THEOREM PromotionsStayInGroup == Spec => []PromotionsInGroup
<1>1. PagesInv => PromotionsInGroup
  BY DEF PagesInv, OffersOK, OfferRowsOK
<1>2. QED  BY <1>1, PagesInvariant, PTL

(* When no rank of the group is about to be recalculated, every automatic  *)
(* rank is the best one the points are enough for, though a badge given or *)
(* taken back, a join or a new limit of lives saves column by column what  *)
(* it has read before; except of a member whose row was written from what  *)
(* had changed since, ranks or the row itself.                             *)
THEOREM RanksGetSettled == Spec => []RanksSettled
<1>1. PagesInv => RanksSettled
  BY SettledNow DEF PagesInv, RanksOK, MembersOK
<1>2. QED  BY <1>1, PagesInvariant, PTL

(* The automatic rank a profile shows is one of the group's: a rank that   *)
(* is gone by the time the statistics are written is not written, and if   *)
(* its row is there again it is of the group it was of.                    *)
THEOREM ProfilesShowRanks == Spec => []ProfileRankShown
<1>1. ASSUME PagesInv PROVE ProfileRankShown
  <2> SUFFICES ASSUME NEW g \in There(groups), NEW s \in Members(g),
                      stats[g][s].auto, Profile(g, s).rank # NoRow
               PROVE  Profile(g, s).rank \in RanksShown(g)
    BY DEF ProfileRankShown
  <2>1. g \in Groups /\ s \in Students /\ stats[g][s] # NoRow
    BY <1>1 DEF There, Members, PagesInv, SettingsOK
  <2>2. stats[g][s] \in MemberRecord /\ HasRank(g, stats[g][s].rank)
    BY <1>1, <2>1, MemberIs DEF PagesInv
  <2>3. Profile(g, s).rank = stats[g][s].rank
    BY DEF Profile
  <2>4. QED  BY <2>2, <2>3 DEF HasRank, MemberRecord, RanksShown
<1>2. QED  BY <1>1, PagesInvariant, PTL

=============================================================================
