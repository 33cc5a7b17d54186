--------------------------------- MODULE Api ---------------------------------
(***************************************************************************)
(* What the browser's data layer asks of the server: the query hooks of    *)
(* lib/api/queries with the SWR key each caches under, the mutations, the  *)
(* changes the server makes with the events that announce them, and the    *)
(* realtime hooks that turn events into refetches.                         *)
(*                                                                         *)
(* A query's reads are the tables its endpoint answers from, its prefixes  *)
(* those among the invalidated ones that its key starts with.  The answer  *)
(* is "rows" (what the hook expects), "missing" (no such route: 404) or    *)
(* "misshapen" (JSON of another shape than the hook's consumers iterate).  *)
(***************************************************************************)

Query(key, prefixes, reads) ==
  [key |-> key, prefixes |-> prefixes, reads |-> reads, answer |-> "rows"]

Unrouted(q) == [q EXCEPT !.answer = "missing"]

Misshapen(q) == [q EXCEPT !.answer = "misshapen"]

-------------------------------------------------------------------------------
(* Query hooks *)

SpendingMetrics ==
  Query("spending-metrics", {"spending-metrics"}, {"transactions", "commitments"})

Transactions == Query("transactions", {"transactions"}, {"transactions"})

Categories == Query("categories", {"categories"}, {"categories"})

Rules == Query("rules", {"rules"}, {"rules"})

Commitments == Query("commitments", {"commitments"}, {"commitments"})

Alerts == Query("alerts", {"alerts"}, {"transactions", "invoices"})

\* The key is ["transaction", id]: no prefix in use is a prefix of "transaction".
Transaction == Query("transaction", {}, {"transactions"})

Invoice == Query("invoice", {"invoice"}, {"invoices", "touches"})

InvoiceMetrics == Query("invoice-metrics", {"invoice", "invoice-metrics"}, {"invoices"})

Invoices == Query("invoices", {"invoice", "invoices"}, {"invoices"})

Customers == Query("customers", {"customers"}, {"customers", "invoices"})

\* The key is "customer-<id>", which "customers" is no prefix of.
Customer == Query("customer", {}, {"customers", "invoices"})

ActionQueue == Query("action-queue", {"action-queue"}, {"invoices", "customers", "touches"})

DashboardMetrics ==
  Query("dashboard-metrics", {"dashboard-metrics"}, {"transactions", "invoices"})

DashboardAlerts ==
  Query("dashboard-alerts", {"dashboard-alerts"}, {"transactions", "invoices"})

\* GET /runway/forecast and /runway/weekly are not routes of the API.
RunwayForecast == Unrouted(Query("runway-forecast", {"runway-forecast"}, {"forecasts"}))

WeeklyForecast == Unrouted(Query("weekly-forecast", {}, {"forecasts"}))

Milestones == Query("milestones", {"milestones"}, {"milestones"})

\* GET /funding/routes is not a route either (it is /funding/routes/rank), and
\* /funding/opportunities answers a page object where the table iterates an array.
FundingRoutes == Unrouted(Query("funding-routes", {"funding-routes"}, {"catalogue"}))

FundingOpportunities ==
  Misshapen(Query("funding-opportunities", {"funding-opportunities"}, {"catalogue", "shortlist"}))

FundingTimeline == Query("funding-timeline", {"funding-timeline"}, {"catalogue"})

ImprovementChecklist == Query("improvement-checklist", {}, {"catalogue"})

NotificationsList == Query("notifications", {"/notifications"}, {"notifications"})

NotificationCount == Query("notification-count", {"/notifications"}, {"notifications"})

Preferences ==
  Query("preferences", {"/notifications", "/notifications/preferences"}, {"preferences"})

InsightsList == Query("insights", {"/insights"}, {"insights"})

Members == Query("members", {"/org/members"}, {"members"})

Invitations == Query("invitations", {"/org/invitations"}, {"invitations"})

AuditLogs == Query("audit", {}, {"audit"})

\* What a search finds: no prefix is one of "global-search", nor of "org" below.
Search ==
  Query("search", {}, {"transactions", "invoices", "customers", "commitments", "catalogue"})

Org == Query("org", {}, {"org"})

\* The hooks called with other arguments, hence under other keys: the five latest
\* transactions, one customer's invoices, the bell's unread notifications and insights.
Under(key, q) == [q EXCEPT !.key = key]

RecentTransactions == Under("recent-transactions", Transactions)

CustomerInvoices == Under("customer-invoices", Invoices)

BellNotifications == Under("bell-notifications", NotificationsList)

BellInsights == Under("bell-insights", InsightsList)

AllQueries ==
  {SpendingMetrics, Transactions, RecentTransactions, Categories, Rules, Commitments,
   Alerts, Transaction, Invoice, InvoiceMetrics, Invoices, CustomerInvoices, Customers,
   Customer, ActionQueue, DashboardMetrics, DashboardAlerts, RunwayForecast,
   WeeklyForecast, Milestones, FundingRoutes, FundingOpportunities, FundingTimeline,
   ImprovementChecklist, NotificationsList, BellNotifications, NotificationCount,
   Preferences, InsightsList, BellInsights, Members, Invitations, AuditLogs, Search, Org}

QueryOf ==
  [k \in {q.key : q \in AllQueries} |-> CHOOSE q \in AllQueries : q.key = k]
-------------------------------------------------------------------------------
(* Changes the server makes, and the events that announce them.  "early" ones are
   published inside the transaction, before it commits, through the outbox and Redis.
   The others go to an in-process queue that only a bridge, which the repository does not
   contain, would carry to the browser: "late" ones after the commit, "hasty" ones by
   code that leaves the commit to its caller. *)

\* Every one of these handlers also records an audit row.
Change(name, stores, early, late) ==
  [name |-> name, writes |-> stores \cup {"audit"}, early |-> early, hasty |-> {}, late |-> late]

\* The handler leaves the commit to its session, which ends after the answer is sent; the
\* generators of notifications and insights leave it to the task.
Deferred(c) == [c EXCEPT !.hasty = c.late, !.late = {}]

Categorize == Change("categorize", {"transactions"}, {}, {"transaction.categorized"})

EditRule == Change("editRule", {"rules"}, {}, {"categorization_rule.updated"})

EditCommitment == Change("editCommitment", {"commitments"}, {}, {"commitment.updated"})

Touch == Change("touch", {"touches"}, {}, {"invoice.touch_logged"})

ConfirmParsing ==
  Change("confirmParsing", {"invoices", "customers"},
         {"invoice.created"}, {"invoice.parsing_confirmed"})

ImportTransactions ==
  Change("importTransactions", {"transactions"}, {"ingest.job_progress"}, {})

ImportInvoices ==
  Change("importInvoices", {"invoices", "customers"}, {"ingest.job_progress"}, {})

\* The task is enqueued and told of before the audit row is committed.
EnqueueImport == Deferred(Change("enqueueImport", {}, {}, {"ingest.job_enqueued"}))

SaveQuestionnaire ==
  Change("saveQuestionnaire", {"profile"}, {}, {"questionnaire.saved"})

SeedSample ==
  Change("seedSample", {"transactions", "commitments", "invoices", "customers"},
         {}, {"sample_data.seeded"})

PurgeData ==
  Deferred(Change("purgeData",
                  {"transactions", "categories", "commitments", "rules", "invoices",
                   "customers", "touches", "milestones", "forecasts", "shortlist"},
                  {}, {"org.data_purged"}))

ComputeForecast ==
  Change("computeForecast", {"forecasts"}, {}, {"runway.forecast_computed"})

CreateScenario == Change("createScenario", {"scenarios"}, {}, {"runway.scenario_created"})

EditMilestone == Change("editMilestone", {"milestones"}, {}, {"runway.milestone_updated"})

SaveOpportunity ==
  Change("saveOpportunity", {"shortlist"}, {}, {"funding.opportunity_saved"})

Notify == Deferred(Change("notify", {"notifications"}, {}, {"notification.created"}))

Triage == Change("triage", {"notifications"}, {}, {"notification.updated"})

SetPreferences ==
  Change("setPreferences", {"preferences"}, {}, {"notification_preference.updated"})

FindInsight == Deferred(Change("findInsight", {"insights"}, {}, {"insight.created"}))

DismissInsight == Deferred(Change("dismissInsight", {"insights"}, {}, {"insight.updated"}))

ChangeInvitation ==
  Deferred(Change("changeInvitation", {"invitations"}, {}, {"invitation.created"}))

AcceptInvitation ==
  Deferred(Change("acceptInvitation", {"invitations", "members"}, {}, {"invitation.accepted"}))

ChangeMember ==
  Deferred(Change("changeMember", {"members"}, {}, {"membership.role_changed"}))

\* The onboarding step that carries the organisation's name and base currency.
PostStep == Deferred(Change("postStep", {"org"}, {}, {"onboarding.step_completed"}))

AllChanges ==
  {Categorize, EditRule, EditCommitment, Touch, ConfirmParsing, ImportTransactions,
   ImportInvoices, EnqueueImport, SaveQuestionnaire, SeedSample, PurgeData,
   ComputeForecast, CreateScenario, EditMilestone, SaveOpportunity,
   Notify, Triage, SetPreferences, FindInsight, DismissInsight, ChangeInvitation,
   AcceptInvitation, ChangeMember, PostStep}

\* Records by their names.
Named(records) == [n \in {r.name : r \in records} |-> CHOOSE r \in records : r.name = n]

ChangeOf == Named(AllChanges)

-------------------------------------------------------------------------------
(* Realtime hooks: on any of events, every key under one of drops is invalidated. *)

SpendingRealtime ==
  [events |-> {"transaction.added", "transaction.updated", "transaction.categorized",
               "categorization_rule.created", "categorization_rule.updated",
               "categorization_rule.deleted", "commitment.updated"},
   drops |-> {"spending-metrics", "transactions", "categories", "rules", "commitments",
              "alerts", "dashboard-metrics", "dashboard-alerts"}]

InvoicesRealtime ==
  [events |-> {"invoice.created", "invoice.touch_logged", "invoice.parsing_confirmed"},
   drops |-> {"invoice", "invoice-metrics", "invoices", "customers", "action-queue",
              "dashboard-metrics"}]

RunwayRealtime ==
  [events |-> {"runway.forecast_computed", "runway.scenario_created",
               "runway.milestone_created", "runway.milestone_updated",
               "runway.milestone_deleted"},
   drops |-> {"runway-forecast", "milestones", "scenarios", "dashboard-metrics"}]

FundingRealtime ==
  [events |-> {"funding.opportunity_saved"},
   drops |-> {"funding-routes", "funding-opportunities", "funding-timeline"}]

IngestRealtime ==
  [events |-> {"ingest.job_enqueued", "ingest.job_progress", "questionnaire.saved",
               "sample_data.seeded"},
   drops |-> {"transactions", "spending-metrics", "invoices", "invoice-metrics",
              "ingest-job"}]

\* The two subscriptions of the bell, which the inbox page repeats.
NotificationsRealtime ==
  [events |-> {"notification.created", "notification.updated"}, drops |-> {"/notifications"}]

InsightsRealtime == [events |-> {"insight.created"}, drops |-> {"/insights"}]

\* invalidateByPrefix: the events on which the hook invalidates the query's key.
HeardBy(hook, q) == IF hook.drops \cap q.prefixes # {} THEN hook.events ELSE {}

-------------------------------------------------------------------------------
(* Mutations: the change one asks for, and how the server answers it: "json", "empty"
   (204 No Content) or "refused". *)

Mutation(change, answer) == [change |-> change, answer |-> answer]

UpdateTransactionCategory == Mutation(Categorize, "json")

\* The body is sent as the form holds it, with categoryId; the endpoint requires
\* category_id and answers 422.
CreateRule == Mutation(EditRule, "refused")

LogTouch == Mutation(Touch, "json")

\* markNotificationRead, archiveNotification and snoozeNotification.
TriageNotification == Mutation(Triage, "json")

UpdateNotificationPreferences == Mutation(SetPreferences, "json")

Dismiss == Mutation(DismissInsight, "json")

CreateInvitation == Mutation(ChangeInvitation, "json")

RevokeInvitation == Mutation(ChangeInvitation, "empty")

UpdateMemberRole == Mutation(ChangeMember, "json")

RemoveMember == Mutation(ChangeMember, "empty")

\* What apiFetch makes of an answer: it parses every successful body as JSON, so an
\* empty one throws although the server has done what it was asked.
Fulfils(answer) == answer = "json"

\* Whether the server makes the change.
Performs(answer) == answer \in {"json", "empty"}
===============================================================================
