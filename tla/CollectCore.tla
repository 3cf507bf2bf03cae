---------------------------- MODULE CollectCore ----------------------------
(***************************************************************************)
(* The core of a -collect run (collectCore in src/internal/game/           *)
(* buildings.go with visitors.go, mail.go, alliance.go and vip.go): seven  *)
(* actions and then one collect request per ready building, each request   *)
(* sent and answered before the next, over one connection.                 *)
(*                                                                         *)
(* A request is what it asks for: its command and the ids it carries.      *)
(* With the whole init push at hand (raw) each action has the gates of the *)
(* real client; without it, on the email path, the actions are sent blind. *)
(***************************************************************************)
EXTENDS Integers, Sequences, SequencesExt, PushLists

CONSTANTS
    Mails,          \* mail uids
    MailFacts,      \* what is known of each mail
    ShowGroups,     \* mailShowGroups, in the client's order
    MaxPages,       \* mail pages asked for (20 in the code)
    MaxPageItems,   \* entries read of one page (1000 in the code)
    MaxMail,        \* maxAggregateMailPerFetch (2000 in the code)
    MaxUid,         \* maxMailUidLen (32767 in the code)
    BatchCount,     \* readBatchSize (100 in the code)
    BatchBytes,     \* maxUIDsBytes (30000 in the code)
    MaxLoopBatches, \* maxMailBatchesPerLoop (300 in the code)
    MaxRunBatches,  \* maxMailRewardBatchesPerRun (300 in the code)
    MaxCollects,    \* maxCollectibleBuildingsPerRun (300 in the code)
    VisitorFacts,   \* what is known of each visitor
    ArrivalMargin,  \* visitorArrivalMargin (5 s in the code)
    Lines           \* what a building's production line may look like

\* A mail: its type is claimed by hand only, it is kept by the player, it has
\* been read, it holds a reward that is due, its group ("none": its type has
\* none) and the length of its uid.
MailFact == [byHand : BOOLEAN, saved : BOOLEAN, read : BOOLEAN, due : BOOLEAN,
             group : {"none", "hide"} \cup Range(ShowGroups), len : Nat]

\* A visitor: its behaviour type by the table ("other": none that is greeted,
\* "unknown": the table does not have it), whether it asks for a choice, and the
\* time to its arrival, negative once it is here.
GreetableVisitorTypes == {"gift", "recruitment", "dominator", "season day gift", "system gift"}
VisitorFact == [type : GreetableVisitorTypes \cup {"other", "unknown"}, choice : BOOLEAN, start : Int]

ASSUME CollectAssumption ==
    /\ ShowGroups \in Seq(Range(ShowGroups)) /\ IsInjective(ShowGroups)
    /\ MailFacts \in [Mails -> MailFact]
    /\ {MaxPages, MaxPageItems, MaxMail, MaxUid, BatchCount, BatchBytes,
        MaxLoopBatches, MaxRunBatches, MaxCollects} \subseteq Nat \ {0}
    /\ VisitorFacts \in [Uids -> VisitorFact]
    /\ ArrivalMargin \in Nat

VARIABLES
    link,       \* the connection: "up", "dead", or "ended" by the server
    raw,        \* the whole init push is at hand
    visitors,   \* the visitors it named
    step,       \* the request that is sent next, or "filter", "done"
    queue,      \* what is left for the loop that runs
    toCollect,  \* the buildings to collect from
    mail,       \* the mail listed
    page,       \* pages listed
    claims,     \* reward batches sent
    offer,      \* what an action's own reply allows it to ask for next
    errs,       \* the errors joined so far
    \* what has happened, for the properties
    asks,       \* how often each thing was asked for
    faults,     \* how requests have failed
    late,       \* a request went out though the connection was known to be lost
    cut         \* a cap has left something out

vars == <<link, raw, visitors, step, queue, toCollect, mail, page, claims, offer,
          errs, asks, faults, late, cut>>

Failures == {"refused", "timeout", "dead", "ended"}
Fatal == {"dead", "ended"}

\* How a request may turn out: "none" is answered, be it with an errorCode that
\* counts as answered (benignErrorCodes).  A broken connection stays broken.
Outcomes == IF link = "up" THEN {"none"} \cup Failures ELSE {link}

\* The errors a caller of SendAndWait gets.
ErrorOf(o) == {o} \cap Failures

AskedFor(x) == IF x \in DOMAIN asks THEN asks[x] ELSE 0

\* A request for the things in `what` goes out and turns out as o.
Send(what, o) ==
    /\ o \in Outcomes
    /\ late' = (late \/ errs \cap Fatal # {})
    /\ asks' = [x \in DOMAIN asks \cup what |-> AskedFor(x) + IF x \in what THEN 1 ELSE 0]
    /\ faults' = faults \cup ErrorOf(o)
    /\ link' = IF o \in Fatal THEN o ELSE link

\* The error is joined to the others.
Join(o) == errs' = errs \cup ErrorOf(o)

\* A variant that goes on after a terminal push.
NextActionUnlessDead(o, s) == step' = IF o = "dead" THEN "done" ELSE s

\* The loop over the actions goes on unless the connection is lost.
NextAction(o, s) == step' = IF o \in Fatal THEN "done" ELSE s

\* The lists come from InitPush; the email path has no whole push.  A connection
\* that was lost after them has not been noticed yet.
Init ==
    /\ link \in {"up"} \cup Fatal
    /\ raw \in BOOLEAN
    /\ visitors \in VisitorLists
    /\ step = "filter"
    /\ queue \in BuildingLists
    /\ toCollect = <<>>
    /\ mail = <<>>
    /\ page = 0
    /\ claims = 0
    /\ offer = {}
    /\ errs = {}
    /\ asks = <<>>
    /\ faults = {}
    /\ late = FALSE
    /\ cut = FALSE

-----------------------------------------------------------------------------
(* The buildings that are ready (readyBuildings), before anything is sent. *)

\* A production line at one moment: it runs (prodST is set) or not, whether the
\* table has its tick (0: no), times in ticks' milliseconds, 0 for a time that
\* is not known, what is stored apart (-1: unreadable), the farm of a week card.

\* prodT moved down onto the tick grid that begins at prodST.
Aligned(l) == IF l.t >= l.st THEN l.st + ((l.t - l.st) \div l.tick) * l.tick ELSE l.t

\* productionReady: what is not known counts as ready.
ProductionReady(l) ==
    \/ l.tick = 0 \/ l.extend # 0 \/ l.t = 0 \/ l.et = 0
    \/ IF l.at >= l.et THEN l.t < l.et ELSE l.at - Aligned(l) >= l.tick

\* collectibleBuildings, readyBuildings (with the init push only).
Collectible(l) == l.running /\ (raw => ~l.settled /\ ProductionReady(l))

FilterBuilding ==
    /\ step = "filter"
    /\ queue # <<>>
    /\ \E ready \in {Collectible(l) : l \in Lines} :
          toCollect' = IF ready THEN Append(toCollect, Head(queue)) ELSE toCollect
    /\ queue' = Tail(queue)
    /\ UNCHANGED <<link, raw, visitors, step, mail, page, claims, offer, errs, asks,
                   faults, late, cut>>

\* truncateBuildings.
Filtered ==
    /\ step = "filter"
    /\ queue = <<>>
    /\ toCollect' = FirstItems(toCollect, MaxCollects)
    /\ cut' = (Len(toCollect) > MaxCollects)
    /\ step' = "idle.peek"
    /\ UNCHANGED <<link, raw, visitors, queue, mail, page, claims, offer, errs,
                   asks, faults, late>>

-----------------------------------------------------------------------------
(* The idle reward and the visitors. *)

\* visitorSkipReason: the others are left for the player.
Greetable(v) ==
    /\ VisitorFacts[v].type \in GreetableVisitorTypes
    /\ ~VisitorFacts[v].choice
    /\ VisitorFacts[v].start <= -ArrivalMargin

AddToGreet(list, v) == IF Greetable(v) THEN Append(list, v) ELSE list

ToGreet == FoldLeft(AddToGreet, <<>>, visitors)

\* CollectIdleReward: a peek that fails leaves the claim out.
PeekIdle(o) ==
    /\ step = "idle.peek"
    /\ Send({}, o)
    /\ Join(o)
    /\ IF o \in Failures THEN NextAction(o, "greet") ELSE step' = "idle.claim"
    /\ queue' = IF o \in Failures THEN ToGreet ELSE queue
    /\ UNCHANGED <<raw, visitors, toCollect, mail, page, claims, offer, cut>>

ClaimIdle(o) ==
    /\ step = "idle.claim"
    /\ Send({}, o)
    /\ Join(o)
    /\ NextAction(o, "greet")
    /\ queue' = ToGreet
    /\ UNCHANGED <<raw, visitors, toCollect, mail, page, claims, offer, cut>>

\* A variant that goes on after a lost connection.
GreetOn(o) ==
    /\ step = "greet"
    /\ queue # <<>>
    /\ Send({<<"greet", Head(queue)>>}, o)
    /\ Join(o)
    /\ queue' = Tail(queue)
    /\ UNCHANGED <<raw, visitors, step, toCollect, mail, page, claims, offer, cut>>

\* greetVisitors: only a lost connection ends the loop.
Greet(o) ==
    /\ step = "greet"
    /\ queue # <<>>
    /\ Send({<<"greet", Head(queue)>>}, o)
    /\ Join(o)
    /\ queue' = Tail(queue)
    /\ NextAction(o, "greet")
    /\ UNCHANGED <<raw, visitors, toCollect, mail, page, claims, offer, cut>>

Greeted ==
    /\ step = "greet"
    /\ queue = <<>>
    /\ step' = "mail.list"
    /\ UNCHANGED <<link, raw, visitors, queue, toCollect, mail, page, claims, offer,
                   errs, asks, faults, late, cut>>

-----------------------------------------------------------------------------
(* The mail. *)

InBulkActions(m) ==
    /\ ~MailFacts[m].byHand
    /\ ~MailFacts[m].saved
    /\ MailFacts[m].group # "none"

Unread(m) == InBulkActions(m) /\ ~MailFacts[m].read

\* groupUnclaimedByGroup: the hide group is never claimed in bulk.
Unclaimed(m) == InBulkActions(m) /\ MailFacts[m].due /\ MailFacts[m].group \in Range(ShowGroups)

\* The uids are joined with commas.
Bytes(uids) == FoldLeft(LAMBDA n, m : n + MailFacts[m].len + 1, 0, uids)

\* batchByCountAndBytes: a batch takes the next mail if it is still empty, or
\* if neither its count nor its bytes go over.
Fits(b, m) == b # <<>> /\ Len(b) < BatchCount /\ Bytes(Append(b, m)) <= BatchBytes

AddToBatches(batches, m) ==
    IF batches # <<>> /\ Fits(Last(batches), m)
    THEN Append(Front(batches), Append(Last(batches), m))
    ELSE Append(batches, <<m>>)

BatchByCountAndBytes(uids) == FoldLeft(AddToBatches, <<>>, uids)

TruncateMailBatches(batches) == FirstItems(batches, MaxLoopBatches)

AddUnread(list, m) == IF Unread(m) THEN Append(list, m) ELSE list

ReadBatches(ms) == BatchByCountAndBytes(FoldLeft(AddUnread, <<>>, ms))

AddToGroup(byGroup, m) ==
    IF Unclaimed(m) THEN [byGroup EXCEPT ![MailFacts[m].group] = Append(@, m)] ELSE byGroup

ByGroup(ms) == FoldLeft(AddToGroup, [g \in Range(ShowGroups) |-> <<>>], ms)

GroupBatches(ms, g) == BatchByCountAndBytes(ByGroup(ms)[g])

Joined(batches, more) == batches \o more

\* One group's batches after another's; one request never mixes groups.
RewardBatches(ms) ==
    FoldLeft(Joined, <<>>, [i \in DOMAIN ShowGroups |->
                               TruncateMailBatches(GroupBatches(ms, ShowGroups[i]))])

\* ListMail's inner loop: no more than the cap, no uid too long to send back,
\* no mail twice.
TakeMail(ms, m) ==
    IF Len(ms) >= MaxMail \/ MailFacts[m].len > MaxUid \/ m \in Range(ms) THEN ms ELSE Append(ms, m)

MailPages == {FoldLeft(KeepValid, <<>>, FirstItems(items, MaxPageItems)) : items \in RawLists(Mails)}

\* What ClaimAllMail does with the mail it has: nothing without any.
MailListed(ms) ==
    /\ mail' = ms
    /\ page' = 0
    /\ IF ms = <<>> THEN step' = "help" /\ queue' = <<>>
       ELSE /\ step' = "mail.read"
            /\ queue' = TruncateMailBatches(ReadBatches(ms))

\* A variant in which a failed page throws the earlier pages away.
ListMailPageAllOrNothing(o) ==
    /\ step = "mail.list"
    /\ Send({}, o)
    /\ Join(o)
    /\ \/ o \in Failures /\ step' = "help" /\ UNCHANGED <<mail, page, queue>>
       \/ /\ o \notin Failures
          /\ \E items \in MailPages, more \in BOOLEAN :
                LET ms == FoldLeft(TakeMail, mail, items)
                IN IF more /\ page + 1 < MaxPages /\ Len(ms) < MaxMail
                   THEN mail' = ms /\ page' = page + 1 /\ UNCHANGED <<step, queue>>
                   ELSE MailListed(ms)
    /\ UNCHANGED <<raw, visitors, toCollect, claims, offer, cut>>

\* ListMail: a page that fails leaves the earlier pages; only a lost connection
\* ends ClaimAllMail there.  More pages follow while the reply says so and
\* names the last uid (`more` stands for both).
ListMailPage(o) ==
    /\ step = "mail.list"
    /\ Send({}, o)
    /\ Join(o)
    /\ \/ /\ o \in Failures
          /\ cut' = TRUE
          /\ IF o \in Fatal THEN step' = "done" /\ UNCHANGED <<mail, page, queue>>
             ELSE MailListed(mail)
       \/ /\ o \notin Failures
          /\ \E items \in MailPages, more \in BOOLEAN :
                LET ms == FoldLeft(TakeMail, mail, items)
                IN IF more /\ page + 1 < MaxPages /\ Len(ms) < MaxMail
                   THEN mail' = ms /\ page' = page + 1 /\ UNCHANGED <<step, queue, cut>>
                   ELSE /\ MailListed(ms)
                        /\ cut' = (cut \/ Len(ReadBatches(ms)) > MaxLoopBatches)
    /\ UNCHANGED <<raw, visitors, toCollect, claims, offer>>

\* mail.read.status.betch.
ReadMail(o) ==
    /\ step = "mail.read"
    /\ queue # <<>>
    /\ Send({<<"read", m>> : m \in Range(Head(queue))}, o)
    /\ Join(o)
    /\ queue' = Tail(queue)
    /\ NextAction(o, "mail.read")
    /\ UNCHANGED <<raw, visitors, toCollect, mail, page, claims, offer, cut>>

MailRead ==
    /\ step = "mail.read"
    /\ queue = <<>>
    /\ step' = "mail.reward"
    /\ queue' = RewardBatches(mail)
    /\ UNCHANGED <<link, raw, visitors, toCollect, mail, page, claims, offer, errs,
                   asks, faults, late, cut>>

MayClaim == claims < MaxRunBatches

\* mail.reward.batch.
ClaimMail(o) ==
    /\ step = "mail.reward"
    /\ queue # <<>>
    /\ MayClaim
    /\ claims' = claims + 1
    /\ Send({<<"reward", m>> : m \in Range(Head(queue))}, o)
    /\ Join(o)
    /\ queue' = Tail(queue)
    /\ NextAction(o, "mail.reward")
    /\ UNCHANGED <<raw, visitors, toCollect, mail, page, offer, cut>>

MailClaimed ==
    /\ step = "mail.reward"
    /\ queue = <<>> \/ ~MayClaim
    /\ step' = "help"
    /\ cut' = (cut \/ queue # <<>> \/ \E i \in DOMAIN ShowGroups :
                   Len(GroupBatches(mail, ShowGroups[i])) > MaxLoopBatches)
    /\ queue' = <<>>
    /\ claims' = 0
    /\ UNCHANGED <<link, raw, visitors, toCollect, mail, page, offer, errs,
                   asks, faults, late>>

-----------------------------------------------------------------------------
(* The alliance: help, gifts and the recommended tech. *)

\* A help request in the list: its id is there, who sent it ("unknown" when
\* either uid is missing), its stats, and how often it was helped of how often
\* it may be (-1: not there).
HelpRequest == [id : BOOLEAN, sender : {"own", "other", "unknown"},
                stats : {-1, 0, 1}, now : {0, 1}, max : {-1, 1}]

\* openHelpRequests: another member's request that can still be helped.
OpenHelp(h) ==
    /\ h.id
    /\ h.sender = "other" \/ (h.sender = "unknown" /\ h.stats # 0)
    /\ h.max = -1 \/ h.now < h.max

AskHelp(o) ==
    /\ step = "help"
    /\ raw
    /\ Send({}, o)
    /\ Join(o)
    /\ IF o \in Failures THEN NextAction(o, "gifts")
       ELSE \E hs \in {{}} \cup {{h} : h \in HelpRequest} :
               step' = IF \E h \in hs : OpenHelp(h) THEN "help.all" ELSE "gifts"
    /\ UNCHANGED <<raw, visitors, queue, toCollect, mail, page, claims, offer,
                   cut>>

\* al.help.all; blind without the init push.
HelpAll(o) ==
    /\ step = "help.all" \/ (step = "help" /\ ~raw)
    /\ Send({}, o)
    /\ Join(o)
    /\ NextAction(o, "gifts")
    /\ UNCHANGED <<raw, visitors, queue, toCollect, mail, page, claims, offer,
                   cut>>

\* claimAllianceGifts: not in an alliance, or no gift waiting (init's count).
SkipGifts ==
    /\ step = "gifts"
    /\ raw
    /\ step' = "tech"
    /\ UNCHANGED <<link, raw, visitors, queue, toCollect, mail, page, claims, offer,
                   errs, asks, faults, late, cut>>

\* The gift list says what waits, and whether the alliance is at the premium
\* level; without it only the regular gifts are claimed.
ListGifts(o) ==
    /\ step = "gifts"
    /\ raw
    /\ Send({}, o)
    /\ Join(o)
    /\ NextAction(o, "gifts.claim")
    /\ \E premium, premiumLevel, regular \in BOOLEAN :
          offer' = IF o \in Failures THEN {"regular"}
                   ELSE (IF premium /\ premiumLevel THEN {"premium"} ELSE {})
                        \cup (IF regular THEN {"regular"} ELSE {})
    /\ UNCHANGED <<raw, visitors, queue, toCollect, mail, page, claims, cut>>

BlindGifts ==
    /\ step = "gifts"
    /\ ~raw
    /\ step' = "gifts.claim"
    /\ offer' = {"premium", "regular"}
    /\ UNCHANGED <<link, raw, visitors, queue, toCollect, mail, page, claims, errs,
                   asks, faults, late, cut>>

\* claimAllianceGiftType, premium gifts first.
ClaimGifts(o) ==
    /\ step = "gifts.claim"
    /\ offer # {}
    /\ LET gift == IF "premium" \in offer THEN "premium" ELSE "regular"
       IN Send({}, o) /\ offer' = offer \ {gift}
    /\ Join(o)
    /\ NextAction(o, "gifts.claim")
    /\ UNCHANGED <<raw, visitors, queue, toCollect, mail, page, claims, cut>>

GiftsClaimed ==
    /\ step = "gifts.claim"
    /\ offer = {}
    /\ step' = "tech"
    /\ UNCHANGED <<link, raw, visitors, queue, toCollect, mail, page, claims, offer,
                   errs, asks, faults, late, cut>>

Unknown == -1

\* The recommended tech, with -1 for what is not known; times as distances
\* from now, amounts in one resource.
Tech == [level : {-1, 0, 1}, maxLevel : {-1, 1}, done : {-1, 0, 1}, target : {-1, 1},
         finishIn : {-1, 0, 1}, cost : {-1, 1}, have : {-1, 0, 1}]

\* allianceTech.blocked (with target).
TechBlocked(t) ==
    \/ t.level # Unknown /\ t.maxLevel # Unknown /\ t.level >= t.maxLevel
    \/ t.done # Unknown /\ t.target # Unknown /\ t.done >= t.target
    \/ t.finishIn > 0
    \/ t.cost # Unknown /\ t.have # Unknown /\ t.cost > t.have

TechMayBeBlocked == {TechBlocked(t) : t \in Tech}

\* allianceScienceAllowed: not in an alliance, or the entrance is closed.
SkipTech ==
    /\ step = "tech"
    /\ raw
    /\ step' = "vip"
    /\ UNCHANGED <<link, raw, visitors, queue, toCollect, mail, page, claims, offer,
                   errs, asks, faults, late, cut>>

\* fetchRecommendedTech: the first tech recommended, if there is one.
AskTech(o) ==
    /\ step = "tech"
    /\ Send({}, o)
    /\ Join(o)
    /\ IF o \in Failures THEN NextAction(o, "vip")
       ELSE \E found \in BOOLEAN, blocked \in TechMayBeBlocked :
               step' = IF found /\ ~blocked THEN "tech.donate" ELSE "vip"
    /\ UNCHANGED <<raw, visitors, queue, toCollect, mail, page, claims, offer,
                   cut>>

Donate(o) ==
    /\ step = "tech.donate"
    /\ Send({}, o)
    /\ Join(o)
    /\ NextAction(o, "vip")
    /\ UNCHANGED <<raw, visitors, queue, toCollect, mail, page, claims, offer,
                   cut>>

-----------------------------------------------------------------------------
(* The VIP dailies and the buildings. *)

\* vipInfo: the login score and the free pack are there, the VIP has not run out.
VipInfo == [login : BOOLEAN, pack : BOOLEAN, active : BOOLEAN]

\* What is claimed on flags of today, and on flags of an earlier day.
ClaimsOn(f) == (IF f.login THEN {"login"} ELSE {}) \cup (IF f.pack /\ f.active THEN {"pack"} ELSE {})
ClaimsOnStale(f) == {"login"} \cup (IF f.active THEN {"pack"} ELSE {})

\* vipEligibility with flags that are missing or of an earlier day: vip.info is
\* asked, and without fresh flags the claims are sent on the old ones, or both.
AskVip(o) ==
    /\ step = "vip"
    /\ raw
    /\ Send({}, o)
    /\ Join(o)
    /\ NextAction(o, "vip.claim")
    /\ \/ o \notin Failures /\ offer' \in {ClaimsOn(f) : f \in VipInfo}
       \/ offer' \in {ClaimsOnStale(f) : f \in VipInfo} \cup {{"login", "pack"}}
    /\ UNCHANGED <<raw, visitors, queue, toCollect, mail, page, claims, cut>>

\* The flags of the init push, or (blind) both claims.
VipAtHand ==
    /\ step = "vip"
    /\ step' = "vip.claim"
    /\ offer' \in IF raw THEN {ClaimsOn(f) : f \in VipInfo} ELSE {{"login", "pack"}}
    /\ UNCHANGED <<link, raw, visitors, queue, toCollect, mail, page, claims, errs,
                   asks, faults, late, cut>>

\* claimVIPDailies: the login score, then the free pack.
ClaimVip(o) ==
    /\ step = "vip.claim"
    /\ offer # {}
    /\ LET what == IF "login" \in offer THEN "login" ELSE "pack"
       IN Send({}, o) /\ offer' = offer \ {what}
    /\ Join(o)
    /\ NextAction(o, "vip.claim")
    /\ UNCHANGED <<raw, visitors, queue, toCollect, mail, page, claims, cut>>

VipClaimed ==
    /\ step = "vip.claim"
    /\ offer = {}
    /\ step' = "build"
    /\ queue' = toCollect
    /\ UNCHANGED <<link, raw, visitors, toCollect, mail, page, claims, offer, errs,
                   asks, faults, late, cut>>

\* building.production.collect.
CollectBuilding(o) ==
    /\ step = "build"
    /\ queue # <<>>
    /\ Send({<<"collect", Head(queue)>>}, o)
    /\ Join(o)
    /\ queue' = Tail(queue)
    /\ NextAction(o, "build")
    /\ UNCHANGED <<raw, visitors, toCollect, mail, page, claims, offer, cut>>

Collected ==
    /\ step = "build"
    /\ queue = <<>>
    /\ step' = "done"
    /\ UNCHANGED <<link, raw, visitors, queue, toCollect, mail, page, claims, offer,
                   errs, asks, faults, late, cut>>

\* A request and how it turns out.
Request(o) ==
    \/ PeekIdle(o)
    \/ ClaimIdle(o)
    \/ Greet(o)
    \/ ListMailPage(o)
    \/ ReadMail(o)
    \/ ClaimMail(o)
    \/ AskHelp(o)
    \/ HelpAll(o)
    \/ ListGifts(o)
    \/ ClaimGifts(o)
    \/ AskTech(o)
    \/ Donate(o)
    \/ AskVip(o)
    \/ ClaimVip(o)
    \/ CollectBuilding(o)

Next ==
    \/ FilterBuilding
    \/ Filtered
    \/ Greeted
    \/ MailRead
    \/ MailClaimed
    \/ SkipGifts
    \/ BlindGifts
    \/ GiftsClaimed
    \/ SkipTech
    \/ VipAtHand
    \/ VipClaimed
    \/ Collected
    \/ \E o \in Outcomes : Request(o)

SafeSpec == Init /\ [][Next]_vars

\* Each request is answered, or its wait times out.
Fairness == WF_vars(Next)

Spec == SafeSpec /\ Fairness

-----------------------------------------------------------------------------
(* Properties. *)

\* Nothing is greeted, claimed, marked read or collected twice in a run,
\* however often the pushes and the mail pages name it; and a core that ran
\* through has asked, once, for every ready building, every visitor that may be
\* greeted, and every mail it listed that is unread or holds a reward, unless
\* a cap left it out: no failed request skips another.
AskedExactlyOnce ==
    /\ \A x \in DOMAIN asks : asks[x] = 1
    /\ step = "done" /\ errs \cap Fatal = {} /\ ~cut =>
          /\ \A b \in Range(toCollect) : AskedFor(<<"collect", b>>) = 1
          /\ \A v \in Range(ToGreet) : AskedFor(<<"greet", v>>) = 1
          /\ \A m \in Range(mail) :
                /\ Unread(m) => AskedFor(<<"read", m>>) = 1
                /\ Unclaimed(m) => AskedFor(<<"reward", m>>) = 1

\* Every request that failed is among the errors the caller gets, and once one
\* says that the connection is lost or that the server ended the session, the
\* run sends nothing more, whatever is left of its loops.
FailuresHeeded == errs = faults /\ ~late

\* The core keeps the promise the rest of the run builds on (CollectPromise).
PartDone == IF errs \cap Fatal = {} THEN "features" ELSE "done"
Promise == INSTANCE CollectPromise WITH part <- IF step = "done" THEN PartDone ELSE "core"
KeepsPromise == Promise!CorePromise
=============================================================================
