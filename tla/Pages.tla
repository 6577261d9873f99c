------------------------------- MODULE Pages -------------------------------
(***************************************************************************)
(* The pages of the web application, each in a browser tab.                *)
(***************************************************************************)
EXTENDS BulkPages, AttentionPages, OnboardingPage, LearningPages, StructurePages

Init ==
  \/ page = "clusters" /\ ClustersInit /\ Opened({LoadClusters("poll")})
  \/ page = "processing" /\ ProcessingInit /\ Opened({LoadRuns("poll")})
  \/ page = "review" /\ ReviewInit /\ Opened({LoadReview("open")})
  \/ page = "notifications" /\ NotificationsInit /\ Opened({LoadNotes({})})
  \/ page = "account" /\ AccountInit /\ Opened({LoadAccount("open")})
  \/ page = "smtp" /\ SmtpInit /\ Opened({LoadSmtp})
  \/ page = "memory" /\ MemoryInit /\ Opened({LoadMemory("open")})
  \/ page = "learning" /\ LearningInit /\ Opened({LoadLearning})
  \/ page = "rules" /\ RulesInit /\ Opened({LoadBoxes("open")})
  \/ page = "structure" /\ StructureInit /\ Opened({LoadList("none")})
  \/ /\ page = "onboarding" /\ OnboardingInit
     /\ Opened({LoadWizard(way) : way \in {"plain", "new", "connected"}})

Reply(q) ==
  CASE page = "clusters" -> ClusterReply(q)
    [] page = "processing" -> ProcessingReply(q)
    [] page = "review" -> ReviewReply(q)
    [] page = "notifications" -> NotificationReply(q)
    [] page \in {"account", "smtp"} -> AccountReply(q)
    [] page \in {"memory", "learning"} -> MemoryReply(q)
    [] page = "rules" -> RulesReply(q)
    [] page = "structure" -> StructureReply(q)
    [] page = "onboarding" -> OnboardingReply(q)

Served(k) == \E q \in run[k].asked : Serve(k, q, Reply(q))
Lost(k) == \E q \in run[k].asked : Lose(k, q, Reply(q))
Forgotten == \E q \in adrift : ServeAdrift(q, Reply(q))

Clusters ==
  /\ page = "clusters"
  /\ \/ Confirm \/ EditTarget \/ ApproveSafe \/ StartApply
     \/ PollClusters \/ PollApply \/ ClusterEvent
     \/ \E k \in Slots : ClusterClicked(k) \/ ClustersLoaded(k) \/ Followed(k)

Processing ==
  /\ page = "processing"
  /\ \/ PauseAll \/ RestartFailed \/ PollRuns \/ RunEvent
     \/ \E k \in Slots : RunsLoaded(k) \/ RunsAnswered(k)

Review ==
  /\ page = "review"
  /\ \/ Expand \/ OpenEditor \/ ConfirmRow \/ SaveCorrection \/ RouteRow
     \/ DismissRow \/ RetryFailure \/ ReloadReview \/ ReviewEvent
     \/ \E k \in Slots : FoldersLoaded(k) \/ ReviewAnswered(k) \/ ReviewLoaded(k)

Notifications ==
  /\ page = "notifications"
  /\ \/ MarkOne \/ MarkAllRead \/ PatchPreferences \/ SavePreferences
     \/ NotificationEvent
     \/ \E k \in Slots : MarkedRead(k) \/ NotesLoaded(k) \/ PreferencesSaved(k)

Account ==
  /\ page = "account"
  /\ \/ RunNow \/ Disconnect \/ SaveSharedAccess \/ MakeShared
     \/ TransferPrivate \/ MakePrivate \/ ReloadAfterRun
     \/ EditConnection \/ CancelConnection \/ AccountEvent
     \/ \E u \in Users : Tick(u)
     \/ \E card \in {"connection", "policy"} : Type(card) \/ SaveCard(card)
     \/ \E k \in Slots :
          \/ AccountLoaded(k) \/ CyclesLoaded(k) \/ AccessLoaded(k)
          \/ BoxClicked(k) \/ CardSaved(k)

Smtp ==
  /\ page = "smtp"
  /\ \/ TypeSmtp \/ SaveSmtp \/ AccountEvent
     \/ \E k \in Slots : SmtpLoaded(k) \/ SmtpSaved(k)

Memory ==
  /\ page = "memory"
  /\ \/ CancelEdit \/ ReloadMemory \/ MemoryServer
     \/ \E e \in DOMAIN view.entries :
          ToggleEntry(e) \/ RemoveEntry(e) \/ BeginEdit(e) \/ PatchDraft(e) \/ SaveEntry(e)
     \/ \E k \in Slots : EntryClicked(k) \/ MemoryLoaded(k)

Learning ==
  /\ page = "learning"
  /\ \/ OpenModal \/ CloseModal \/ SubmitRule \/ MemoryServer
     \/ \E e \in Entries : ToggleEnabled(e)
     \/ \E k \in Slots : LearningLoaded(k) \/ LearningClicked(k)

RulesPage ==
  /\ page = "rules"
  /\ \/ UpdatePolicy \/ AddRule \/ RemoveRule \/ RulesEvent
     \/ \E box \in Boxes : SelectBox(box)
     \/ \E k \in Slots : BoxesLoaded(k) \/ RulesArrive(k) \/ RulesClicked(k)

Structure ==
  /\ page = "structure"
  /\ \/ StartSetup \/ Discover \/ EditItem \/ NextToMapping \/ EditRoutes
     \/ BackToDiscovery \/ NextToReview \/ ApplyDraft \/ BackToMapping
     \/ BackToFolders \/ ApplyReceived \/ StructureEvent
     \/ \E box \in Managed : ChooseMailbox(box)
     \/ \E a \in api.applies :
          ApplyListed(a) \/ FolderCreated(a) \/ ApplyStored(a) \/ ApplyFailed(a)
     \/ \E k \in Slots :
          ListLoaded(k) \/ CurrentLoaded(k) \/ Discovered(k) \/ DraftApplied(k)

Onboarding ==
  /\ page = "onboarding"
  /\ \/ SessionKnown \/ ToMailbox \/ Back \/ OpenMailflow
     \/ ToggleAnalyze \/ ConnectOAuth \/ ContinueFromMailbox
     \/ SavePrivacy \/ SaveBehavior \/ FinishExisting \/ OnboardingEvent
     \/ \E k \in Slots : WizardLoaded(k) \/ MembersLoaded(k) \/ WizardAnswered(k)

Next ==
  \/ Clusters \/ Processing \/ Review \/ Notifications
  \/ Account \/ Smtp \/ Memory \/ Learning \/ RulesPage \/ Structure
  \/ Onboarding
  \/ \E k \in Slots : Served(k) \/ Lost(k)
  \/ Forgotten

Spec == Init /\ [][Next]_vars
=============================================================================
