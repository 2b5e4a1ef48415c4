----------------------------- MODULE GroupPages -----------------------------
(***************************************************************************)
(* The pages of the groups together: lecturers, students and the job that  *)
(* publishes posts call the services of all parts on the same rows.        *)
(***************************************************************************)
EXTENDS Templates, Backlog, Reports

CONSTANTS
  Starts  \* the rows there are when the calls begin

(* No row is NoRow; the accounts of students are those with statistics.    *)
ASSUME RowsAssumption ==
  /\ NoRow \notin RankIds
  /\ NoRow \notin GroupRow /\ NoRow \notin [group : Groups, required : Nat]
  /\ NoRow \notin [lives : Nat, points : Nat, coins : Nat, rank : RankIds \cup {NoRow},
                   auto : BOOLEAN]
  /\ NoRow \notin [group : Groups, published : BOOLEAN]
  /\ NoRow \notin [badge : BadgeIds, group : Groups, student : Students]
  /\ NoRow \notin [group : Groups, order : Nat \cup {NoRow}, shown : Visibility]
  /\ NoRow \notin [stage : StageIds, shown : BOOLEAN]
  /\ NoRow \notin [group : Groups, shown : BOOLEAN, at : Times]
  /\ NoRow \notin [group : Groups, ranks : SUBSET RankIds, badges : SUBSET BadgeIds]
  /\ NoRow \notin
       LET Part(ids, kind) == UNION {[some -> kind] : some \in SUBSET ids} IN
       [creator : {a.id : a \in Accounts}, public : BOOLEAN, data :
          [lives : Nat \cup {Unlimited}, starting : Nat, raced : BOOLEAN,
           ranks : Part(RankIds, Nat), badges : SUBSET BadgeIds,
           offers : Part(OfferIds, [ranks : SUBSET RankIds, badges : SUBSET BadgeIds]),
           posts : SUBSET PostIds, orders : Part(StageIds, Nat \cup {NoRow}),
           acts : Part(ActivityIds, [stage : StageIds, shown : BOOLEAN])]]
  /\ {a.id : a \in {b \in Accounts : b.role = "student"}} \subseteq Students

(* The calls begin on tables whose foreign keys hold, when no call is in   *)
(* progress: settings fit, promotions and ranks are of the group itself,   *)
(* automatic ranks are the best ones, what is published is announced.      *)
ASSUME StartsAssumption ==
  \A start \in Starts :
    LET there == There(start.groups)
        reached(g, n) == {k \in There(start.ranks) :
                            start.ranks[k].group = g /\ start.ranks[k].required <= n}
    IN
    /\ start.groups \in [Groups -> GroupRow \cup {NoRow}]
    /\ \A g \in there : LivesFit(start.groups[g].lives, start.groups[g].starting)
    /\ start.ranks \in [RankIds -> [group : there, required : Nat] \cup {NoRow}]
    /\ start.badges \in [BadgeIds -> [group : there, published : BOOLEAN] \cup {NoRow}]
    /\ start.earned \in [EarnedIds -> {NoRow} \cup
         [badge : There(start.badges), group : there, student : Students]]
    /\ start.stats \in [Groups -> [Students -> {NoRow} \cup
         [lives : Nat, points : Nat, coins : Nat, rank : RankIds \cup {NoRow}, auto : BOOLEAN]]]
    /\ \A g \in Groups, s \in Students :
         LET row == start.stats[g][s] IN row # NoRow =>
           /\ g \in there
           /\ row.rank # NoRow => start.ranks[row.rank] # NoRow /\ start.ranks[row.rank].group = g
           /\ row.auto =>
                /\ row.rank # NoRow => row.rank \in reached(g, row.points)
                /\ \A k \in reached(g, row.points) :
                     row.rank # NoRow /\ start.ranks[k].required <= start.ranks[row.rank].required
    /\ start.stages \in [StageIds -> {NoRow} \cup
         [group : there, order : Nat \cup {NoRow}, shown : Visibility]]
    /\ start.activities \in [ActivityIds -> {NoRow} \cup
         [stage : There(start.stages), shown : BOOLEAN]]
    /\ start.done \in [ActivityIds -> SUBSET (there \X Students)]
    /\ \A a \in ActivityIds : start.done[a] # {} => start.activities[a] # NoRow
    /\ start.posts \in [PostIds -> [group : there, shown : BOOLEAN, at : Times] \cup {NoRow}]
    /\ start.told \in [PostIds -> {"no", "yes", "missed"}]
    /\ \A p \in There(start.posts) : start.posts[p].shown => start.told[p] # "no"
    /\ start.offers \in [OfferIds -> {NoRow} \cup
         [group : there, ranks : SUBSET RankIds, badges : SUBSET BadgeIds]]
    /\ \A o \in There(start.offers) :
         /\ \A k \in start.offers[o].ranks :
              start.ranks[k] # NoRow /\ start.ranks[k].group = start.offers[o].group
         /\ \A b \in start.offers[o].badges :
              start.badges[b] # NoRow /\ start.badges[b].group = start.offers[o].group
    /\ DOMAIN start.templates = TemplateIds
    /\ \A t \in There(start.templates) :
         LET row == start.templates[t]
             d == row.data
         IN /\ row \in [creator : {a.id : a \in Accounts}, public : BOOLEAN, data : {d}]
            /\ Snapshot(d) /\ (d.raced \/ LivesFit(d.lives, d.starting))

pageVars == <<pageRows, templateRows, gone, calls>>

Deleted(table, after) == {x \in There(table) : after[x] = NoRow}

Init ==
  /\ \E start \in Starts :
       /\ groups = start.groups /\ stats = start.stats /\ ranks = start.ranks
       /\ badges = start.badges /\ earned = start.earned
       /\ stages = start.stages /\ activities = start.activities /\ done = start.done
       /\ posts = start.posts /\ told = start.told
       /\ offers = start.offers /\ templates = start.templates
  /\ notices = [g \in Groups |-> [s \in Students |-> [k \in Kinds |-> "none"]]]
  /\ favorites = {} /\ raced = {} /\ blurred = {} /\ gone = {}
  /\ begun = 0
  /\ pc = [r \in Requests |-> "idle"] /\ call = [r \in Requests |-> NoCall]

CallStep(r) ==
  \/ GroupStep(r) /\ UNCHANGED <<badgeRows, stageRows, postRows, templateRows>>
  \/ RankStep(r) /\ Cascade /\ UNCHANGED <<stageRows, postRows, templates, favorites>>
  \/ StageStep(r) /\ UNCHANGED <<badgeRows, postRows, templateRows>>
  \/ PostStep(r) /\ UNCHANGED <<badgeRows, stageRows, templateRows>>
  \/ BacklogStep(r) /\ UNCHANGED <<badgeRows, stageRows, postRows, templateRows>>
  \/ TemplateStep(r)
  \/ Fail(r) /\ PostFails(r) /\ UNCHANGED <<badgeRows, stageRows, posts, templateRows>>

Next ==
  \/ \E r \in Requests :
       /\ pc[r] = "idle" => begun < MaxCalls
       /\ CallStep(r)
       /\ gone' = gone \cup Deleted(ranks, ranks') \cup Deleted(badges, badges')
            \cup Deleted(earned, earned')
            \cup Deleted(stages, stages') \cup Deleted(activities, activities')
            \cup Deleted(posts, posts') \cup Deleted(offers, offers')
            \cup Deleted(templates, templates')
  \/ \E p \in PostIds : TimePasses(p) /\ UNCHANGED <<badgeRows, stageRows, templateRows, gone>>

Spec == Init /\ [][Next]_pageVars

=============================================================================
