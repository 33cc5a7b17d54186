-------------------------------- MODULE Pages --------------------------------
(***************************************************************************)
(* The pages of the application shell: the panels each renders, the query  *)
(* each panel shows and how it decides between skeleton, error and rows,   *)
(* the realtime hooks mounted around it, and the edits its controls make.  *)
(***************************************************************************)
EXTENDS Api

\* A panel shows the query cached under key.  place is "page" (mounted with the page),
\* "part" (mounted while a record sheet is open on it, its tab is selected or its table
\* is turned to it) or "shell" (in the top bar, kept across navigation).
Panel(q, gate, place) == [key |-> q.key, gate |-> gate, place |-> place]

\* An edit sends call and, when it is fulfilled, invalidates the keys under refreshes.
\* Its control is in the rows of the list under key on, or in a "form".  silent ones show
\* nothing when they fail; painting ones overwrite their list with a guess before the
\* answer, and eager ones invalidate then, too.
Edit(name, call, on, refreshes) ==
  [name |-> name, sends |-> TRUE, change |-> call.change, answer |-> call.answer,
   on |-> on, refreshes |-> refreshes, silent |-> FALSE, paints |-> FALSE, eager |-> FALSE]

\* A control that reports success without asking the server anything.
LocalEdit(name, change, on) ==
  [Edit(name, Mutation(change, "json"), on, {}) EXCEPT !.sends = FALSE]

\* What a panel shows.  loading is SWR's isLoading: a request in flight and no data.
\* "empty" is the copy that says there is nothing.
Rows(data) == IF data = "none" THEN "empty" ELSE "rows"

Screen(gate, data, err, fetching) ==
  LET loading == fetching /\ data = "none"
  IN CASE gate = "errorFirst" -> IF err THEN "error" ELSE IF loading THEN "skeleton" ELSE Rows(data)
       [] gate = "loadingFirst" -> IF loading THEN "skeleton" ELSE IF err THEN "error" ELSE Rows(data)
       [] gate = "noError" -> IF loading THEN "skeleton" ELSE Rows(data)
       [] gate = "bare" -> Rows(data)
       [] gate = "dataOnly" -> IF loading THEN "skeleton"
                               ELSE IF data = "none" THEN "nothing" ELSE "rows"
       [] gate = "rowsFirst" -> IF data # "none" THEN "rows" ELSE IF err THEN "error"
                                ELSE IF loading THEN "skeleton" ELSE "empty"

-------------------------------------------------------------------------------
(* Parts shared by pages *)

\* RecordSheet asks for the record as a transaction, as an invoice, or, when the page
\* does not say which it is, as both; a failed request reads "Record not found".
TransactionSheet == {Panel(Transaction, "noError", "part")}

InvoiceSheet == {Panel(Invoice, "noError", "part")}

RecordSheet == TransactionSheet \cup InvoiceSheet

Bell == {Panel(NotificationCount, "bare", "shell"), Panel(BellNotifications, "bare", "shell"),
         Panel(BellInsights, "bare", "shell")}

\* Both palettes answer to the same key.  While one is open its search is mounted, once
\* two characters have been typed and the typing has paused; until then it reads "No
\* matches." or "No results." unasked.
CommandPalette == {Panel(Search, "rowsFirst", "part")}

GlobalCommandPalette == {Panel(Search, "noError", "part")}

TopBar == Bell \cup GlobalCommandPalette

\* Amounts read as USD until the organisation is known.
BaseCurrencyProvider == {Panel(Org, "bare", "shell")}

\* What is around every page.
Shell == TopBar \cup CommandPalette \cup BaseCurrencyProvider

BellRealtime == {NotificationsRealtime, InsightsRealtime}

\* InvoiceListTable, whose rows open the invoice.
InvoiceListTable(q, place) == {Panel(q, "errorFirst", place)} \cup InvoiceSheet

\* TransactionsTable: the trigger's own key "transactions" is nobody's list key.
ChangeCategory == Edit("changeCategory", UpdateTransactionCategory, "transactions", {})

\* RuleForm.
AddRule == Edit("addRule", CreateRule, "form", {"rules"})

\* The switches of the rules and commitments tables and the milestone form toast without
\* a request; the shortlist's heart and the imports page keep theirs in the component.
ToggleRule == LocalEdit("toggleRule", EditRule, "rules")

ToggleCommitment == LocalEdit("toggleCommitment", EditCommitment, "commitments")

MilestoneEdit == LocalEdit("milestoneEdit", EditMilestone, "milestones")

ToggleShortlist == LocalEdit("toggleShortlist", SaveOpportunity, "funding-opportunities")

UploadFile == LocalEdit("uploadFile", ImportInvoices, "form")

\* TouchLogDialog.
RecordTouch == Edit("recordTouch", LogTouch, "action-queue", {"action-queue"})

\* NotificationRow and InboxPage.handleRowChanged: the list is painted and every
\* notification key invalidated before the request, and again whatever its outcome.
TriageRow ==
  [Edit("triageRow", TriageNotification, "notifications", {"/notifications"})
     EXCEPT !.paints = TRUE, !.eager = TRUE]

\* NotificationPreferences.setPref: painted, then overwritten by the answer or restored.
SetPreference ==
  [Edit("setPreference", UpdateNotificationPreferences, "preferences",
        {"/notifications/preferences"})
     EXCEPT !.paints = TRUE]

DismissRow == Edit("dismissRow", Dismiss, "insights", {"/insights"})

InviteForm == Edit("invite", CreateInvitation, "form", {"/org/invitations"})

\* TeamPage.handleRevoke has no catch.
RevokeInvite ==
  [Edit("revoke", RevokeInvitation, "invitations", {"/org/invitations"}) EXCEPT !.silent = TRUE]

ChangeRole == Edit("changeRole", UpdateMemberRole, "members", {"/org/members"})

RemoveRow == Edit("remove", RemoveMember, "members", {"/org/members"})

-------------------------------------------------------------------------------
(* Layouts and pages *)

SpendingLayout == {SpendingRealtime, IngestRealtime}

InvoicesLayout == {InvoicesRealtime, IngestRealtime}

RunwayLayout == {RunwayRealtime}

FundingLayout == {FundingRealtime}

DashboardLayout == {SpendingRealtime}

Page(name, layout, panels, edits) ==
  [name |-> name, hooks |-> layout \cup BellRealtime, panels |-> panels \cup Shell,
   edits |-> edits]

\* The metric tiles and the alert list.
DashboardMain ==
  {Panel(DashboardMetrics, "errorFirst", "page"), Panel(DashboardAlerts, "errorFirst", "page")}

\* The health score and its evidence chip.
DashboardSide ==
  {Panel(DashboardMetrics, "dataOnly", "page"), Panel(DashboardAlerts, "bare", "page")}

DashboardPage ==
  Page("dashboard", DashboardLayout, DashboardMain \cup DashboardSide \cup RecordSheet, {})

\* The tiles.
SpendingMain == {Panel(SpendingMetrics, "errorFirst", "page")}

\* The weekly trend, the charts and lists of the latest transactions, and the alerts.
SpendingSide ==
  {Panel(SpendingMetrics, "bare", "page"), Panel(RecentTransactions, "bare", "page"),
   Panel(Alerts, "bare", "page")}

SpendingPage ==
  Page("spending", SpendingLayout, SpendingMain \cup SpendingSide \cup RecordSheet, {})

TransactionsPage ==
  Page("transactions", SpendingLayout,
       {Panel(Transactions, "errorFirst", "part"), Panel(Categories, "bare", "page")}
         \cup TransactionSheet,
       {ChangeCategory, AddRule})

RulesPage ==
  Page("rules", SpendingLayout,
       {Panel(Rules, "errorFirst", "page"), Panel(Categories, "bare", "page")},
       {AddRule, ToggleRule})

\* The list of upcoming renewals, then the table.
CommitmentsPage ==
  Page("commitments", SpendingLayout,
       {Panel(Commitments, "noError", "page"), Panel(Commitments, "errorFirst", "page")},
       {ToggleCommitment})

InvoicesMain == {Panel(InvoiceMetrics, "errorFirst", "page")}

\* The ageing chart, the riskiest customers and the alerts.
InvoicesSide ==
  {Panel(InvoiceMetrics, "bare", "page"), Panel(Customers, "bare", "page"),
   Panel(Alerts, "bare", "page")}

InvoicesPage ==
  Page("invoices", InvoicesLayout, InvoicesMain \cup InvoicesSide \cup RecordSheet, {})

InvoiceListPage ==
  Page("invoiceList", InvoicesLayout,
       InvoiceListTable(Invoices, "part") \cup {Panel(Customers, "bare", "page")}, {})

CustomersPage ==
  Page("customers", InvoicesLayout, {Panel(Customers, "errorFirst", "page")}, {})

\* The heading waits for the customer; the table below it for the invoices.
CustomerDetailPage ==
  Page("customer", InvoicesLayout,
       InvoiceListTable(CustomerInvoices, "page") \cup {Panel(Customer, "errorFirst", "page")},
       {})

ActionsPage ==
  Page("actions", InvoicesLayout, {Panel(ActionQueue, "errorFirst", "page")}, {RecordTouch})

ImportsPage == Page("imports", InvoicesLayout, {}, {UploadFile})

RunwayMain == {Panel(RunwayForecast, "errorFirst", "page")}

RunwaySide ==
  {Panel(WeeklyForecast, "errorFirst", "page"), Panel(Milestones, "errorFirst", "page")}

RunwayPage ==
  Page("runway", RunwayLayout, RunwayMain \cup RunwaySide \cup RecordSheet, {MilestoneEdit})

FundingTabs ==
  {Panel(FundingRoutes, "errorFirst", "page"), Panel(FundingOpportunities, "errorFirst", "page"),
   Panel(FundingTimeline, "errorFirst", "page")}

FundingPage ==
  Page("funding", FundingLayout,
       FundingTabs \cup {Panel(ImprovementChecklist, "errorFirst", "page")} \cup RecordSheet,
       {ToggleShortlist})

ExplainPage == Page("explain", {}, RecordSheet, {})

\* The selected tab's notifications, the insights and the preferences.
InboxPage ==
  Page("inbox", {},
       {Panel(NotificationsList, "loadingFirst", "part"),
        Panel(InsightsList, "loadingFirst", "page"),
        Panel(Preferences, "loadingFirst", "page")},
       {TriageRow, DismissRow, SetPreference})

TeamPage ==
  Page("team", {},
       {Panel(Members, "loadingFirst", "page"), Panel(Invitations, "loadingFirst", "page")},
       {InviteForm, RevokeInvite, ChangeRole, RemoveRow})

\* The table of the filtered log, and the count above it, which reads "0 events" on error.
AuditLogTable ==
  {Panel(AuditLogs, "loadingFirst", "part"), Panel(AuditLogs, "noError", "part")}

AuditLogPage == Page("audit", {}, AuditLogTable, {})

SettingsPage == Page("settings", {}, {}, {})

AllPages ==
  {DashboardPage, SpendingPage, TransactionsPage, RulesPage, CommitmentsPage, InvoicesPage,
   InvoiceListPage, CustomersPage, CustomerDetailPage, ActionsPage, ImportsPage, RunwayPage,
   FundingPage, ExplainPage, InboxPage, TeamPage, AuditLogPage, SettingsPage}

PageOf == Named(AllPages)

EditOf == Named(UNION {p.edits : p \in AllPages})
===============================================================================
