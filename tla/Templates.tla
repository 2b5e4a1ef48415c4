----------------------------- MODULE Templates -----------------------------
(***************************************************************************)
(* A group is exported to a template, which lecturers share, and a new     *)
(* group is made from it.  A template is a snapshot with the ids of the    *)
(* group it was taken from; the import gives every row a new one.  What is *)
(* for sale refers to ranks and badges by its promotions.                  *)
(***************************************************************************)
EXTENDS Ranks, Stages, Posts

Fn == INSTANCE Functions

CONSTANTS OfferIds, TemplateIds

VARIABLES
  offers,     \* items with a listing: [group, ranks, badges], or NoRow
  templates,  \* education.group_templates: [creator, public, data], or NoRow
  favorites   \* group_template_favorites: <<account, template>>

templateRows == <<offers, templates, favorites>>
pageRows == <<groups, ranks, members, notices, raced, badgeRows, stageRows, postRows>>

OfferRow == [group : There(groups), ranks : SUBSET There(ranks), badges : SUBSET There(badges)]
Favorite == {a.id : a \in Accounts} \X There(templates)

(* GroupTemplateData: every kind of row under the ids it had in the group, *)
(* the activities of a snapshot in its stages.                             *)
Held(rows, ids, kind) == DOMAIN rows \subseteq ids /\ rows \in [DOMAIN rows -> kind]
Snapshot(d) ==
  /\ d \in [lives : Nat \cup {Unlimited}, starting : Nat, raced : BOOLEAN,
            ranks : {d.ranks}, badges : SUBSET BadgeIds, offers : {d.offers},
            posts : SUBSET PostIds, orders : {d.orders}, acts : {d.acts}]
  /\ Held(d.ranks, RankIds, Nat)
  /\ Held(d.offers, OfferIds, [ranks : SUBSET RankIds, badges : SUBSET BadgeIds])
  /\ Held(d.orders, StageIds, Nat \cup {NoRow})
  /\ Held(d.acts, ActivityIds, [stage : DOMAIN d.orders, shown : BOOLEAN])

Of(table, ids, g) == {x \in ids : table[x] # NoRow /\ table[x].group = g}

-----------------------------------------------------------------------------
(* createItem and updateItem check that the ranks and badges of their      *)
(* promotions belong to the group, ...                                     *)
OfferCheck(r) ==
  \E c \in Callers, o \in OfferIds, g \in Groups :
    \E ks \in SUBSET Of(ranks, RankIds, g), bs \in SUBSET Of(badges, BadgeIds, g) :
      /\ groups[g] # NoRow /\ OwnsAnywhere(c, groups[g].teacher)
      /\ Fresh(offers, o) \/ (offers[o] # NoRow /\ offers[o].group = g)
      /\ Begin(r, IF offers[o] = NoRow THEN "offerNew" ELSE "offerSave",
               [offer |-> o, row |-> [group |-> g, ranks |-> ks, badges |-> bs]])
      /\ UNCHANGED <<pageRows, templateRows>>

(* ... and write the promotions, if ranks, badges and item still exist.    *)
OfferSave(r) ==
  LET o == call[r].offer
      row == call[r].row
  IN /\ pc[r] \in {"offerNew", "offerSave"}
     /\ IF /\ (pc[r] = "offerNew") = (offers[o] = NoRow)
           /\ \A k \in row.ranks : ranks[k] # NoRow
           /\ \A b \in row.badges : badges[b] # NoRow
        THEN /\ offers' = [offers EXCEPT ![o] = row]
             /\ IF pc[r] = "offerNew" THEN Goto(r, "notify", [group |-> row.group]) ELSE Done(r)
        ELSE offers' = offers /\ Done(r)
     /\ UNCHANGED <<pageRows, templates, favorites>>

DeleteOffer(r) ==
  \E c \in Callers, o \in OfferIds :
    /\ offers[o] # NoRow /\ OwnsAnywhere(c, groups[offers[o].group].teacher)
    /\ AtOnce(r)
    /\ offers' = [offers EXCEPT ![o] = NoRow]
    /\ UNCHANGED <<pageRows, templates, favorites>>

(* ON DELETE CASCADE of the promotions, in the step that deletes.          *)
Cascade ==
  offers' = [o \in OfferIds |-> IF offers[o] = NoRow THEN NoRow
    ELSE [offers[o] EXCEPT !.ranks = {k \in @ : ranks'[k] # NoRow},
                           !.badges = {b \in @ : badges'[b] # NoRow}]]

-----------------------------------------------------------------------------
(* exportGroupToTemplate: one transaction, each statement of which sees    *)
(* what is committed by then: the group, badges and ranks ...              *)
ExportRead(r) ==
  \E c \in Callers, g \in Groups, public \in BOOLEAN :
    LET ks == Of(ranks, RankIds, g) IN
    /\ groups[g] # NoRow /\ OwnsByRequest(c, groups[g].teacher)
    /\ Begin(r, "export", [group |-> g, public |-> public, creator |-> groups[g].teacher,
         lives |-> groups[g].lives, starting |-> groups[g].starting, raced |-> g \in raced,
         ranks |-> [k \in ks |-> ranks[k].required], badges |-> Of(badges, BadgeIds, g)])
    /\ UNCHANGED <<pageRows, templateRows>>

(* ... and later items, posts, stages and their activities, and saves.     *)
ExportSave(r) ==
  LET c == call[r]
      os == Of(offers, OfferIds, c.group)
      ss == Of(stages, StageIds, c.group)
  IN \E t \in TemplateIds :
     /\ pc[r] = "export" /\ Fresh(templates, t)
     /\ templates' = [templates EXCEPT ![t] =
          [creator |-> c.creator, public |-> c.public, data |->
             [lives |-> c.lives, starting |-> c.starting, raced |-> c.raced,
              ranks |-> c.ranks, badges |-> c.badges,
              offers |-> [o \in os |-> [ranks |-> offers[o].ranks, badges |-> offers[o].badges]],
              posts |-> Of(posts, PostIds, c.group),
              orders |-> [s \in ss |-> stages[s].order],
              acts |-> [a \in UNION {Inside(s) : s \in ss} |-> activities[a]]]]]
     /\ Done(r)
     /\ UNCHANGED <<pageRows, offers, favorites>>

(* Mutant: promotions keep the ids of the group the template is from.      *)
SameIds(ids, map) == ids

(* Promotions whose rank or badge the snapshot does not hold are dropped.  *)
NewIds(ids, map) == {map[x] : x \in ids \cap DOMAIN map}

New(table, map, row(_)) ==
  [x \in DOMAIN table |-> IF \E y \in DOMAIN map : map[y] = x
                          THEN row(CHOOSE y \in DOMAIN map : map[y] = x) ELSE table[x]]

FreeIds(table, ids) == {x \in ids : Fresh(table, x)}

(* createGroupFromTemplate gives every row of the snapshot a new id, ...    *)
Copied(g, teacher, d, km, bm, om, pm, sm, am) ==
  /\ groups' = [groups EXCEPT ![g] =
       [teacher |-> teacher, lives |-> d.lives, starting |-> d.starting]]
  /\ ranks' = New(ranks, km, LAMBDA k : [group |-> g, required |-> d.ranks[k]])
  /\ badges' = New(badges, bm, LAMBDA b : [group |-> g, published |-> FALSE])
  /\ offers' = New(offers, om, LAMBDA o :
       [group |-> g, ranks |-> NewIds(d.offers[o].ranks, km),
        badges |-> NewIds(d.offers[o].badges, bm)])
  /\ posts' = New(posts, pm, LAMBDA p : [group |-> g, shown |-> FALSE, at |-> "never"])
  /\ told' = New(told, pm, LAMBDA p : "no")
  /\ stages' = New(stages, sm, LAMBDA s : [group |-> g, order |-> d.orders[s], shown |-> 0])
  /\ activities' = New(activities, am, LAMBDA a :
       [stage |-> sm[d.acts[a].stage], shown |-> d.acts[a].shown])
  /\ raced' = IF d.raced THEN raced \cup {g} ELSE raced

(* ... the whole group in one transaction; nothing of it is shown to       *)
(* students before the lecturer publishes it.                              *)
Import(r) ==
  \E c \in Callers, t \in TemplateIds, g \in Groups :
    LET d == templates[t].data IN
    /\ templates[t] # NoRow /\ Fresh(groups, g) /\ LecturerId(c) # NoRow
    /\ templates[t].public \/ templates[t].creator = LecturerId(c)
    /\ AtOnce(r)
    /\ \E km \in Fn!Injection(DOMAIN d.ranks, FreeIds(ranks, RankIds)),
          bm \in Fn!Injection(d.badges, FreeIds(badges, BadgeIds)),
          om \in Fn!Injection(DOMAIN d.offers, FreeIds(offers, OfferIds)),
          pm \in Fn!Injection(d.posts, FreeIds(posts, PostIds)),
          sm \in Fn!Injection(DOMAIN d.orders, FreeIds(stages, StageIds)),
          am \in Fn!Injection(DOMAIN d.acts, FreeIds(activities, ActivityIds)) :
         Copied(g, LecturerId(c), d, km, bm, om, pm, sm, am)
    /\ UNCHANGED <<members, notices, earned, done, templates, favorites>>

-----------------------------------------------------------------------------
(* Who may see a template, and what a list of them holds.                  *)
MaySee(c, t) == templates[t].public \/ templates[t].creator = LecturerId(c)

TemplatesShown(c, scope, favoritesOnly) ==
  {t \in TemplateIds : /\ templates[t] # NoRow
     /\ IF scope = "my" THEN templates[t].creator = LecturerId(c)
        ELSE templates[t].public /\ (favoritesOnly => <<LecturerId(c), t>> \in favorites)}

(* updateTemplate and cloneTemplate read the template ...                  *)
TemplateRead(r) ==
  \E c \in Callers, t \in TemplateIds, step \in {"templateSave", "clone"} :
    /\ templates[t] # NoRow /\ LecturerId(c) # NoRow
    /\ IF step = "clone" THEN MaySee(c, t) ELSE templates[t].creator = LecturerId(c)
    /\ Begin(r, step, [template |-> t,
         row |-> IF step = "clone"
                 THEN [templates[t] EXCEPT !.creator = LecturerId(c), !.public = FALSE]
                 ELSE [templates[t] EXCEPT !.public = ~@]])
    /\ UNCHANGED <<pageRows, templateRows>>

(* ... and save it as it was read, also if it is gone.                     *)
TemplateSave(r) ==
  \E t \in TemplateIds :
    /\ pc[r] \in {"templateSave", "clone"}
    /\ IF pc[r] = "clone" THEN Fresh(templates, t) ELSE t = call[r].template
    /\ templates' = [templates EXCEPT ![t] = call[r].row]
    /\ Done(r)
    /\ UNCHANGED <<pageRows, offers, favorites>>

(* deleteTemplate takes the favorites with it.                             *)
DeleteTemplate(r) ==
  \E c \in Callers, t \in TemplateIds :
    /\ templates[t] # NoRow /\ LecturerId(c) # NoRow /\ templates[t].creator = LecturerId(c)
    /\ AtOnce(r)
    /\ templates' = [templates EXCEPT ![t] = NoRow]
    /\ favorites' = {f \in favorites : f[2] # t}
    /\ UNCHANGED <<pageRows, offers>>

(* setTemplateFavorite: only for a template that is public now.            *)
FavoriteCheck(r) ==
  \E c \in Callers, t \in TemplateIds :
    /\ templates[t] # NoRow /\ LecturerId(c) # NoRow /\ templates[t].public
    /\ <<LecturerId(c), t>> \notin favorites
    /\ Begin(r, "favorite", [favorite |-> <<LecturerId(c), t>>])
    /\ UNCHANGED <<pageRows, templateRows>>

FavoriteSave(r) ==
  LET f == call[r].favorite IN
  /\ pc[r] = "favorite"
  /\ favorites' = IF templates[f[2]] # NoRow THEN favorites \cup {f} ELSE favorites
  /\ Done(r)
  /\ UNCHANGED <<pageRows, offers, templates>>

Unfavorite(r) ==
  \E c \in Callers, t \in TemplateIds :
    /\ templates[t] # NoRow /\ templates[t].public /\ <<LecturerId(c), t>> \in favorites
    /\ AtOnce(r)
    /\ favorites' = favorites \ {<<LecturerId(c), t>>}
    /\ UNCHANGED <<pageRows, offers, templates>>

TemplateStep(r) ==
  \/ OfferCheck(r) \/ OfferSave(r) \/ DeleteOffer(r)
  \/ ExportRead(r) \/ ExportSave(r) \/ Import(r)
  \/ TemplateRead(r) \/ TemplateSave(r) \/ DeleteTemplate(r)
  \/ FavoriteCheck(r) \/ FavoriteSave(r) \/ Unfavorite(r)

-----------------------------------------------------------------------------
(* The promotions of what a group sells are for its own ranks and badges,  *)
(* in the group a lecturer made and in one made from a template, also when *)
(* ranks and badges come and go while items are saved and groups exported. *)
PromotionsInGroup ==
  \A o \in OfferIds : offers[o] # NoRow =>
    /\ \A k \in offers[o].ranks : ranks[k] # NoRow /\ ranks[k].group = offers[o].group
    /\ \A b \in offers[o].badges : badges[b] # NoRow /\ badges[b].group = offers[o].group
=============================================================================
