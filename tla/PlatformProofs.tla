--------------------------- MODULE PlatformProofs ---------------------------
(***************************************************************************)
(* What the platform promises the card, for any applications on any        *)
(* volume, any number of cards, releases and jobs.                         *)
(***************************************************************************)
EXTENDS Platform, TLAPS

Loading == ui \in {"open", "read", "load", "start"}

\* What the platform relies on of the card: nothing is granted while a release is
\* asked for, and one is asked for from the draining on.
GrantedInv ==
  /\ granted => mounted /\ request = 0 /\ MaxId # 0
  /\ request = 0 <=> state = "steady"
  /\ state \in {"unmounting", "fault"} => answered

\* From the answer to the end of the release nothing is there that could use a
\* volume, and the UI thread does not get as far as to start anything.
Answered == state \in {"draining", "unmounting"} /\ answered
EmptyInv ==
  Answered =>
    /\ ui \in {"card", "storage"}
    /\ job = "off" /\ recovery = "off"
    /\ pages = {} /\ \A a \in Apps : service[a] = "none"
    /\ state = "draining" => releasing = request /\ acknowledged

\* Code of the card is in memory only while its file system is there and not given back.
CardInv == \A a \in OnCard : Loaded(a) => mounted /\ ~(request # 0 /\ answered)
TargetInv == Loading => target \in Apps

\* All of it holds together.
IInv == TypeOK /\ GrantedInv /\ EmptyInv /\ CardInv /\ TargetInv

\* The types, by what belongs together.
FlagsTyped ==
  /\ granted \in BOOLEAN /\ mounted \in BOOLEAN /\ answered \in BOOLEAN
  /\ overdue \in BOOLEAN /\ changed \in BOOLEAN /\ stale \in BOOLEAN
  /\ recovery_pending \in BOOLEAN /\ needs_prepare \in BOOLEAN /\ exit_sent \in BOOLEAN
  /\ prepare_ok \in BOOLEAN /\ acknowledged \in BOOLEAN /\ page \in BOOLEAN
LeaseTyped == token \in Id /\ request \in Id /\ last \in Id
StateTyped == state \in {"steady", "draining", "unmounting", "fault"} /\ cards \in 0 .. MaxCards
PromptTyped ==
  modal \in {"none", "asked", "loading"} /\ prompt_session \in Id /\ apps_session \in Id
ReadyTyped == ready \subseteq Volumes /\ recovery_session \in Id
ThreadTyped ==
  /\ recovery \in {"off", "start", "recover", "prepare", "migrate", "valid", "set", "done"}
  /\ recovering \in Id /\ migrated \in Id
JobTyped ==
  /\ job \in {"off", "wait", "run", "finish"} /\ job_id \in Apps \cup {NoApp}
  /\ job_session \in Id /\ jobs \in 0 .. MaxJobs
AppTyped ==
  /\ pages \subseteq Apps
  /\ service \in [Apps -> {"none", "running", "stopping", "done"}]
  /\ session \in [Apps -> Id]
UiTyped ==
  /\ ui \in {"card", "storage", "installer", "stop", "exit", "input",
             "services", "jobs", "catalog", "next", "open", "read", "load", "start"}
  /\ releasing \in Id
LoadTyped == target \in Apps \cup {NoApp} /\ seen \in Id /\ todo \subseteq Background

\* Groups of variables, which the actions leave alone together.
USE DEF leaseVars, cardVars, promptVars, threadVars, readyVars, jobVars, appVars, loadVars, uiVars,
        Elsewhere, Locals, Card, Seen, Beside, JobRest, Calm, Apart, Goto, Recovery, Job, Id, Volumes

-----------------------------------------------------------------------------
\* The helpers.

\* The types are those of their parts, before a step and after it.
LEMMA Types ==
  TypeOK <=> /\ FlagsTyped /\ LeaseTyped /\ StateTyped /\ PromptTyped /\ ReadyTyped
             /\ ThreadTyped /\ JobTyped /\ AppTyped /\ UiTyped /\ LoadTyped
BY DEF TypeOK, FlagsTyped, LeaseTyped, StateTyped, PromptTyped, ReadyTyped, ThreadTyped, JobTyped,
       AppTyped, UiTyped, LoadTyped

\* The types of the next state, one by one.
LEMMA TypesPrimed ==
  TypeOK' <=> /\ FlagsTyped' /\ LeaseTyped' /\ StateTyped' /\ PromptTyped' /\ ReadyTyped'
              /\ ThreadTyped' /\ JobTyped' /\ AppTyped' /\ UiTyped' /\ LoadTyped'
BY DEF TypeOK, FlagsTyped, LeaseTyped, StateTyped, PromptTyped, ReadyTyped, ThreadTyped, JobTyped,
       AppTyped, UiTyped, LoadTyped

\* The session of code is a number of a session.
LEMMA SessionsTyped ==
  ASSUME session \in [Apps -> Id], NEW a, NEW s \in Id, Sessions(a, s)
  PROVE  session' \in [Apps -> Id]
<1> \A b \in Apps : (IF ~Loaded(b)' THEN 0 ELSE IF b = a THEN s ELSE session[b]) \in Id
  <2> 0 \in Id BY PlatformAssumption DEF PlatformAssumption
  <2> QED OBVIOUS
<1> QED BY DEF Sessions

\* Forgetting a session leaves numbers of sessions.
LEMMA ForgetTyped ==
  ASSUME session \in [Apps -> Id], Forget
  PROVE  session' \in [Apps -> Id]
<1> 0 \in Id BY PlatformAssumption DEF PlatformAssumption
<1> QED BY SessionsTyped DEF Forget

\* Nothing is loaded but by the step that reads it.
LEMMA StaysLoaded ==
  ASSUME CardInv, OnCard \subseteq Apps,
         \A a \in OnCard : Loaded(a)' => Loaded(a),
         mounted' = mounted, request' = request, answered' = answered
  PROVE  CardInv'
BY DEF CardInv

-----------------------------------------------------------------------------
\* The card's steps.
LEMMA CardKeeps ==
  ASSUME IInv, CardStep
  PROVE  IInv'
<1> USE PlatformAssumption DEF PlatformAssumption, Lease!Mount, Lease!Grant, Lease!Revoke,
     Lease!Withdraw, Lease!Ask, Lease!Unmount, Lease!Finish, Lease!Following
<1> /\ TypeOK /\ GrantedInv /\ EmptyInv /\ CardInv /\ TargetInv BY DEF IInv
<1>0. \A a \in OnCard : Loaded(a)' => Loaded(a)
  BY DEF CardStep, Loaded, MountCard, PublishCard, LoseCard, AskForRelease, ReleaseOverdue,
     TakeAnswer, UnmountCard, FinishRelease, FailRelease
<1>t. TargetInv'
  BY DEF CardStep, TargetInv, Loading, MountCard, PublishCard, LoseCard, AskForRelease,
     ReleaseOverdue, TakeAnswer, UnmountCard, FinishRelease, FailRelease
<1>1. CASE MountCard
  <2>1. TypeOK' BY <1>1 DEF MountCard, TypeOK, GrantedInv
  <2>2. GrantedInv' BY <1>1 DEF MountCard, TypeOK, GrantedInv
  <2>3. EmptyInv' BY <1>1 DEF MountCard, EmptyInv, Answered, GrantedInv, TypeOK
  <2>4. CardInv' BY <1>0, <1>1 DEF MountCard, CardInv, GrantedInv, EmptyInv, Answered, Loaded
  <2> QED BY <1>t, <2>1, <2>2, <2>3, <2>4 DEF IInv
<1>2. CASE PublishCard
  <2>1. TypeOK' BY <1>2 DEF PublishCard, TypeOK, GrantedInv
  <2>2. GrantedInv' BY <1>2 DEF PublishCard, TypeOK, GrantedInv
  <2>3. EmptyInv' BY <1>2 DEF PublishCard, EmptyInv, Answered, GrantedInv, TypeOK
  <2>4. CardInv' BY <1>0, <1>2 DEF PublishCard, CardInv, GrantedInv, EmptyInv, Answered, Loaded
  <2> QED BY <1>t, <2>1, <2>2, <2>3, <2>4 DEF IInv
<1>3. CASE LoseCard
  <2>1. TypeOK'
    <3>1. StateTyped' /\ PromptTyped' /\ ReadyTyped' /\ ThreadTyped'
          /\ JobTyped' /\ AppTyped' /\ UiTyped' /\ LoadTyped'
      BY <1>3, Types DEF LoseCard, StateTyped, PromptTyped, ReadyTyped, ThreadTyped, JobTyped,
         AppTyped, UiTyped, LoadTyped
    <3>2. FlagsTyped' BY <1>3, Types DEF LoseCard, GrantedInv, FlagsTyped
    <3>3. LeaseTyped' BY <1>3, Types DEF LoseCard, GrantedInv, LeaseTyped
    <3> QED BY <3>1, <3>2, <3>3, TypesPrimed
  <2>2. GrantedInv' BY <1>3 DEF LoseCard, TypeOK, GrantedInv
  <2>3. EmptyInv' BY <1>3 DEF LoseCard, EmptyInv, Answered, GrantedInv, TypeOK
  <2>4. CardInv' BY <1>0, <1>3 DEF LoseCard, CardInv, GrantedInv, EmptyInv, Answered, Loaded
  <2> QED BY <1>t, <2>1, <2>2, <2>3, <2>4 DEF IInv
<1>4. CASE AskForRelease
  <2>1. TypeOK'
    <3>1. PromptTyped' /\ ReadyTyped' /\ ThreadTyped'
          /\ JobTyped' /\ AppTyped' /\ UiTyped' /\ LoadTyped'
      BY <1>4, Types DEF AskForRelease, PromptTyped, ReadyTyped, ThreadTyped, JobTyped, AppTyped,
         UiTyped, LoadTyped
    <3>2. FlagsTyped' BY <1>4, Types DEF AskForRelease, GrantedInv, FlagsTyped
    <3>3. LeaseTyped' BY <1>4, Types DEF AskForRelease, GrantedInv, LeaseTyped
    <3>4. StateTyped' BY <1>4, Types DEF AskForRelease, GrantedInv, StateTyped
    <3> QED BY <3>1, <3>2, <3>3, <3>4, TypesPrimed
  <2>2. GrantedInv' BY <1>4 DEF AskForRelease, TypeOK, GrantedInv
  <2>3. EmptyInv' BY <1>4 DEF AskForRelease, EmptyInv, Answered, GrantedInv, TypeOK
  <2>4. CardInv' BY <1>0, <1>4 DEF AskForRelease, CardInv, GrantedInv, EmptyInv, Answered, Loaded
  <2> QED BY <1>t, <2>1, <2>2, <2>3, <2>4 DEF IInv
<1>5. CASE ReleaseOverdue
  <2>1. TypeOK' BY <1>5 DEF ReleaseOverdue, TypeOK, GrantedInv
  <2>2. GrantedInv' BY <1>5 DEF ReleaseOverdue, TypeOK, GrantedInv
  <2>3. EmptyInv' BY <1>5 DEF ReleaseOverdue, EmptyInv, Answered, GrantedInv, TypeOK
  <2>4. CardInv' BY <1>0, <1>5 DEF ReleaseOverdue, CardInv, GrantedInv, EmptyInv, Answered, Loaded
  <2> QED BY <1>t, <2>1, <2>2, <2>3, <2>4 DEF IInv
<1>6. CASE TakeAnswer
  <2>1. TypeOK'
    <3>1. LeaseTyped' /\ PromptTyped' /\ ReadyTyped' /\ ThreadTyped'
          /\ JobTyped' /\ AppTyped' /\ UiTyped' /\ LoadTyped'
      BY <1>6, Types DEF TakeAnswer, LeaseTyped, PromptTyped, ReadyTyped, ThreadTyped, JobTyped,
         AppTyped, UiTyped, LoadTyped
    <3>2. FlagsTyped' BY <1>6, Types DEF TakeAnswer, GrantedInv, FlagsTyped
    <3>3. StateTyped' BY <1>6, Types DEF TakeAnswer, GrantedInv, StateTyped
    <3> QED BY <3>1, <3>2, <3>3, TypesPrimed
  <2>2. GrantedInv' BY <1>6 DEF TakeAnswer, TypeOK, GrantedInv
  <2>3. EmptyInv' BY <1>6 DEF TakeAnswer, EmptyInv, Answered, GrantedInv, TypeOK
  <2>4. CardInv' BY <1>0, <1>6 DEF TakeAnswer, CardInv, GrantedInv, EmptyInv, Answered, Loaded
  <2> QED BY <1>t, <2>1, <2>2, <2>3, <2>4 DEF IInv
<1>7. CASE UnmountCard
  <2>1. TypeOK'
    <3>1. StateTyped' /\ PromptTyped' /\ ReadyTyped' /\ ThreadTyped'
          /\ JobTyped' /\ AppTyped' /\ UiTyped' /\ LoadTyped'
      BY <1>7, Types DEF UnmountCard, StateTyped, PromptTyped, ReadyTyped, ThreadTyped, JobTyped,
         AppTyped, UiTyped, LoadTyped
    <3>2. FlagsTyped' BY <1>7, Types DEF UnmountCard, GrantedInv, FlagsTyped
    <3>3. LeaseTyped' BY <1>7, Types DEF UnmountCard, GrantedInv, LeaseTyped
    <3> QED BY <3>1, <3>2, <3>3, TypesPrimed
  <2>2. GrantedInv' BY <1>7 DEF UnmountCard, TypeOK, GrantedInv
  <2>3. EmptyInv' BY <1>7 DEF UnmountCard, EmptyInv, Answered, GrantedInv, TypeOK
  <2>4. CardInv' BY <1>0, <1>7 DEF UnmountCard, CardInv, GrantedInv, EmptyInv, Answered, Loaded
  <2> QED BY <1>t, <2>1, <2>2, <2>3, <2>4 DEF IInv
<1>8. CASE FinishRelease
  <2>1. TypeOK' BY <1>8 DEF FinishRelease, TypeOK, GrantedInv
  <2>2. GrantedInv' BY <1>8 DEF FinishRelease, TypeOK, GrantedInv
  <2>3. EmptyInv' BY <1>8 DEF FinishRelease, EmptyInv, Answered, GrantedInv, TypeOK
  <2>4. CardInv' BY <1>0, <1>8 DEF FinishRelease, CardInv, GrantedInv, EmptyInv, Answered, Loaded
  <2> QED BY <1>t, <2>1, <2>2, <2>3, <2>4 DEF IInv
<1>9. CASE FailRelease
  <2>1. TypeOK' BY <1>9 DEF FailRelease, TypeOK, GrantedInv
  <2>2. GrantedInv' BY <1>9 DEF FailRelease, TypeOK, GrantedInv
  <2>3. EmptyInv' BY <1>9 DEF FailRelease, EmptyInv, Answered, GrantedInv, TypeOK
  <2>4. CardInv' BY <1>0, <1>9 DEF FailRelease, CardInv, GrantedInv, EmptyInv, Answered, Loaded
  <2> QED BY <1>t, <2>1, <2>2, <2>3, <2>4 DEF IInv
<1> QED BY <1>1, <1>2, <1>3, <1>4, <1>5, <1>6, <1>7, <1>8, <1>9 DEF CardStep

\* The threads of the installer and of the services.
LEMMA ThreadsKeep ==
  ASSUME IInv, recover_card \/ worker \/ \E a \in Apps : ServiceEnds(a)
  PROVE  IInv'
<1> USE PlatformAssumption DEF PlatformAssumption
<1> /\ TypeOK /\ GrantedInv /\ EmptyInv /\ CardInv /\ TargetInv BY DEF IInv
<1>1. CASE RecoverBegin
  <2>1. TypeOK' BY <1>1, ForgetTyped DEF RecoverBegin, TypeOK
  <2>2. GrantedInv' BY <1>1 DEF RecoverBegin, GrantedInv
  <2>3. EmptyInv' BY <1>1 DEF RecoverBegin, EmptyInv, Answered, GrantedInv
  <2>4. TargetInv' BY <1>1 DEF RecoverBegin, TargetInv, Loading, TypeOK
  <2>5. \A a \in OnCard : Loaded(a)' => Loaded(a) BY <1>1 DEF RecoverBegin, Loaded, TypeOK
  <2>6. CardInv' BY <1>1, <2>5, StaysLoaded DEF RecoverBegin
  <2> QED BY <2>1, <2>2, <2>3, <2>4, <2>6 DEF IInv
<1>2. CASE RecoverJournal
  <2>1. TypeOK'
    <3>1. FlagsTyped' /\ LeaseTyped' /\ StateTyped' /\ PromptTyped'
          /\ JobTyped' /\ AppTyped' /\ UiTyped' /\ LoadTyped'
      BY <1>2, Types DEF RecoverJournal, SetNotReady, FlagsTyped, LeaseTyped, StateTyped,
         PromptTyped, JobTyped, AppTyped, UiTyped, LoadTyped
    <3>2. ReadyTyped' BY <1>2, Types DEF RecoverJournal, SetNotReady, ReadyTyped
    <3>3. ThreadTyped' BY <1>2, Types DEF RecoverJournal, SetNotReady, ThreadTyped
    <3> QED BY <3>1, <3>2, <3>3, TypesPrimed
  <2>2. GrantedInv' BY <1>2 DEF RecoverJournal, GrantedInv, SetNotReady
  <2>3. EmptyInv' BY <1>2 DEF RecoverJournal, EmptyInv, Answered, GrantedInv, SetNotReady
  <2>4. TargetInv' BY <1>2 DEF RecoverJournal, TargetInv, Loading, TypeOK, SetNotReady
  <2>5. \A a \in OnCard : Loaded(a)' => Loaded(a)
    BY <1>2 DEF RecoverJournal, Loaded, TypeOK, SetNotReady
  <2>6. CardInv' BY <1>2, <2>5, StaysLoaded DEF RecoverJournal, SetNotReady
  <2> QED BY <2>1, <2>2, <2>3, <2>4, <2>6 DEF IInv
<1>3. CASE PrepareData
  <2>1. TypeOK' BY <1>3, ForgetTyped DEF PrepareData, TypeOK
  <2>2. GrantedInv' BY <1>3 DEF PrepareData, GrantedInv
  <2>3. EmptyInv' BY <1>3 DEF PrepareData, EmptyInv, Answered, GrantedInv
  <2>4. TargetInv' BY <1>3 DEF PrepareData, TargetInv, Loading, TypeOK
  <2>5. \A a \in OnCard : Loaded(a)' => Loaded(a) BY <1>3 DEF PrepareData, Loaded, TypeOK
  <2>6. CardInv' BY <1>3, <2>5, StaysLoaded DEF PrepareData
  <2> QED BY <2>1, <2>2, <2>3, <2>4, <2>6 DEF IInv
<1>4. CASE MigrateData
  <2>1. TypeOK'
    <3>1. FlagsTyped' /\ LeaseTyped' /\ StateTyped' /\ PromptTyped'
          /\ JobTyped' /\ AppTyped' /\ UiTyped' /\ LoadTyped'
      BY <1>4, Types DEF MigrateData, SetNotReady, FlagsTyped, LeaseTyped, StateTyped,
         PromptTyped, JobTyped, AppTyped, UiTyped, LoadTyped
    <3>2. ReadyTyped' BY <1>4, Types DEF MigrateData, SetNotReady, ReadyTyped
    <3>3. ThreadTyped' BY <1>4, Types DEF MigrateData, SetNotReady, ThreadTyped
    <3> QED BY <3>1, <3>2, <3>3, TypesPrimed
  <2>2. GrantedInv' BY <1>4 DEF MigrateData, GrantedInv, SetNotReady
  <2>3. EmptyInv' BY <1>4 DEF MigrateData, EmptyInv, Answered, GrantedInv, SetNotReady
  <2>4. TargetInv' BY <1>4 DEF MigrateData, TargetInv, Loading, TypeOK, SetNotReady
  <2>5. \A a \in OnCard : Loaded(a)' => Loaded(a)
    BY <1>4 DEF MigrateData, Loaded, TypeOK, SetNotReady
  <2>6. CardInv' BY <1>4, <2>5, StaysLoaded DEF MigrateData, SetNotReady
  <2> QED BY <2>1, <2>2, <2>3, <2>4, <2>6 DEF IInv
<1>5. CASE StillValid
  <2>1. TypeOK'
    <3>1. FlagsTyped' /\ LeaseTyped' /\ StateTyped' /\ PromptTyped'
          /\ JobTyped' /\ AppTyped' /\ UiTyped' /\ LoadTyped'
      BY <1>5, Types DEF StillValid, SetNotReady, FlagsTyped, LeaseTyped, StateTyped, PromptTyped,
         JobTyped, AppTyped, UiTyped, LoadTyped
    <3>2. ReadyTyped' BY <1>5, Types DEF StillValid, SetNotReady, ReadyTyped
    <3>3. ThreadTyped' BY <1>5, Types DEF StillValid, SetNotReady, ThreadTyped
    <3> QED BY <3>1, <3>2, <3>3, TypesPrimed
  <2>2. GrantedInv' BY <1>5 DEF StillValid, GrantedInv, SetNotReady
  <2>3. EmptyInv' BY <1>5 DEF StillValid, EmptyInv, Answered, GrantedInv, SetNotReady
  <2>4. TargetInv' BY <1>5 DEF StillValid, TargetInv, Loading, TypeOK, SetNotReady
  <2>5. \A a \in OnCard : Loaded(a)' => Loaded(a)
    BY <1>5 DEF StillValid, Loaded, TypeOK, SetNotReady
  <2>6. CardInv' BY <1>5, <2>5, StaysLoaded DEF StillValid, SetNotReady
  <2> QED BY <2>1, <2>2, <2>3, <2>4, <2>6 DEF IInv
<1>6. CASE SetReady
  <2>1. TypeOK' BY <1>6, ForgetTyped DEF SetReady, TypeOK
  <2>2. GrantedInv' BY <1>6 DEF SetReady, GrantedInv
  <2>3. EmptyInv' BY <1>6 DEF SetReady, EmptyInv, Answered, GrantedInv
  <2>4. TargetInv' BY <1>6 DEF SetReady, TargetInv, Loading, TypeOK
  <2>5. \A a \in OnCard : Loaded(a)' => Loaded(a) BY <1>6 DEF SetReady, Loaded, TypeOK
  <2>6. CardInv' BY <1>6, <2>5, StaysLoaded DEF SetReady
  <2> QED BY <2>1, <2>2, <2>3, <2>4, <2>6 DEF IInv
<1>7. CASE RecoverEnd
  <2>1. TypeOK' BY <1>7, ForgetTyped DEF RecoverEnd, TypeOK
  <2>2. GrantedInv' BY <1>7 DEF RecoverEnd, GrantedInv
  <2>3. EmptyInv' BY <1>7 DEF RecoverEnd, EmptyInv, Answered, GrantedInv
  <2>4. TargetInv' BY <1>7 DEF RecoverEnd, TargetInv, Loading, TypeOK
  <2>5. \A a \in OnCard : Loaded(a)' => Loaded(a) BY <1>7 DEF RecoverEnd, Loaded, TypeOK
  <2>6. CardInv' BY <1>7, <2>5, StaysLoaded DEF RecoverEnd
  <2> QED BY <2>1, <2>2, <2>3, <2>4, <2>6 DEF IInv
<1>8. CASE JobPrepared
  <2>1. TypeOK' BY <1>8, ForgetTyped DEF JobPrepared, TypeOK
  <2>2. GrantedInv' BY <1>8 DEF JobPrepared, GrantedInv
  <2>3. EmptyInv' BY <1>8 DEF JobPrepared, EmptyInv, Answered, GrantedInv
  <2>4. TargetInv' BY <1>8 DEF JobPrepared, TargetInv, Loading, TypeOK
  <2>5. \A a \in OnCard : Loaded(a)' => Loaded(a) BY <1>8 DEF JobPrepared, Loaded, TypeOK
  <2>6. CardInv' BY <1>8, <2>5, StaysLoaded DEF JobPrepared
  <2> QED BY <2>1, <2>2, <2>3, <2>4, <2>6 DEF IInv
<1>9. CASE JobTransaction
  <2>1. TypeOK'
    <3>1. FlagsTyped' /\ LeaseTyped' /\ StateTyped' /\ PromptTyped'
          /\ ThreadTyped' /\ AppTyped' /\ UiTyped' /\ LoadTyped'
      BY <1>9, Types DEF JobTransaction, FlagsTyped, LeaseTyped, StateTyped, PromptTyped,
         ThreadTyped, AppTyped, UiTyped, LoadTyped
    <3>2. ReadyTyped' BY <1>9, Types DEF JobTransaction, Volume, ReadyTyped, LeaseTyped
    <3>3. JobTyped' BY <1>9, Types DEF JobTransaction, Volume, JobTyped, LeaseTyped
    <3> QED BY <3>1, <3>2, <3>3, TypesPrimed
  <2>2. GrantedInv' BY <1>9 DEF JobTransaction, GrantedInv, Volume
  <2>3. EmptyInv' BY <1>9 DEF JobTransaction, EmptyInv, Answered, GrantedInv, Volume
  <2>4. TargetInv' BY <1>9 DEF JobTransaction, TargetInv, Loading, TypeOK, Volume
  <2>5. \A a \in OnCard : Loaded(a)' => Loaded(a) BY <1>9 DEF JobTransaction, Loaded, TypeOK, Volume
  <2>6. CardInv' BY <1>9, <2>5, StaysLoaded DEF JobTransaction, Volume
  <2> QED BY <2>1, <2>2, <2>3, <2>4, <2>6 DEF IInv
<1>10. CASE JobEnd
  <2>1. TypeOK'
    <3>1. LeaseTyped' /\ StateTyped' /\ PromptTyped' /\ ReadyTyped'
          /\ ThreadTyped' /\ AppTyped' /\ UiTyped' /\ LoadTyped'
      BY <1>10, Types DEF JobEnd, LeaseTyped, StateTyped, PromptTyped, ReadyTyped, ThreadTyped,
         AppTyped, UiTyped, LoadTyped
    <3>2. FlagsTyped' BY <1>10, Types DEF JobEnd, FlagsTyped
    <3>3. JobTyped' BY <1>10, Types DEF JobEnd, JobTyped
    <3> QED BY <3>1, <3>2, <3>3, TypesPrimed
  <2>2. GrantedInv' BY <1>10 DEF JobEnd, GrantedInv
  <2>3. EmptyInv' BY <1>10 DEF JobEnd, EmptyInv, Answered, GrantedInv
  <2>4. TargetInv' BY <1>10 DEF JobEnd, TargetInv, Loading, TypeOK
  <2>5. \A a \in OnCard : Loaded(a)' => Loaded(a) BY <1>10 DEF JobEnd, Loaded, TypeOK
  <2>6. CardInv' BY <1>10, <2>5, StaysLoaded DEF JobEnd
  <2> QED BY <2>1, <2>2, <2>3, <2>4, <2>6 DEF IInv
<1>11. CASE \E a \in Apps : ServiceEnds(a)
  <2>1. TypeOK' BY <1>11, ForgetTyped DEF ServiceEnds, TypeOK
  <2>2. GrantedInv' BY <1>11 DEF ServiceEnds, GrantedInv
  <2>3. EmptyInv' BY <1>11 DEF ServiceEnds, EmptyInv, Answered, GrantedInv
  <2>4. TargetInv' BY <1>11 DEF ServiceEnds, TargetInv, Loading, TypeOK
  <2>5. \A a \in OnCard : Loaded(a)' => Loaded(a) BY <1>11 DEF ServiceEnds, Loaded, TypeOK
  <2>6. CardInv' BY <1>11, <2>5, StaysLoaded DEF ServiceEnds
  <2> QED BY <2>1, <2>2, <2>3, <2>4, <2>6 DEF IInv
<1> QED BY <1>1, <1>2, <1>3, <1>4, <1>5, <1>6, <1>7, <1>8, <1>9, <1>10, <1>11 DEF recover_card,
     worker

\* The UI thread, outside of a load.
LEMMA PassKeeps ==
  ASSUME IInv,
         \/ app_card_process \/ launcher_storage_process
         \/ app_installer_process("installer", "stop") \/ StopServices
         \/ epd_input_process \/ app_service_process("services", "jobs", {})
         \/ app_installer_process("jobs", "catalog") \/ app_catalog_process \/ StartNext
  PROVE  IInv'
<1> USE PlatformAssumption DEF PlatformAssumption
<1> /\ TypeOK /\ GrantedInv /\ EmptyInv /\ CardInv /\ TargetInv BY DEF IInv
<1>1. CASE app_card_process
  <2>1. TypeOK'
    <3>1. LeaseTyped' /\ StateTyped' /\ ReadyTyped'
          /\ ThreadTyped' /\ JobTyped' /\ AppTyped' /\ LoadTyped'
      BY <1>1, Types DEF app_card_process, LeaseTyped, StateTyped, ReadyTyped, ThreadTyped,
         JobTyped, AppTyped, LoadTyped
    <3>2. FlagsTyped' BY <1>1, Types DEF app_card_process, Dismiss, MayPrompt, FlagsTyped
    <3>3. PromptTyped'
      BY <1>1, Types DEF app_card_process, Dismiss, MayPrompt, PromptTyped, LeaseTyped
    <3>4. UiTyped' BY <1>1, Types DEF app_card_process, Dismiss, MayPrompt, UiTyped
    <3> QED BY <3>1, <3>2, <3>3, <3>4, TypesPrimed
  <2>2. GrantedInv' BY <1>1 DEF app_card_process, GrantedInv, Dismiss, MayPrompt
  <2>3. EmptyInv' BY <1>1 DEF app_card_process, EmptyInv, Answered, GrantedInv, Dismiss, MayPrompt
  <2>4. TargetInv' BY <1>1 DEF app_card_process, TargetInv, Loading, TypeOK, Dismiss, MayPrompt
  <2>5. \A a \in OnCard : Loaded(a)' => Loaded(a)
    BY <1>1 DEF app_card_process, Loaded, TypeOK, Dismiss, MayPrompt
  <2>6. CardInv' BY <1>1, <2>5, StaysLoaded DEF app_card_process, Dismiss, MayPrompt
  <2> QED BY <2>1, <2>2, <2>3, <2>4, <2>6 DEF IInv
<1>2. CASE ReleaseRequested
  <2>1. TypeOK'
    <3>1. LeaseTyped' /\ StateTyped' /\ PromptTyped' /\ ReadyTyped'
          /\ ThreadTyped' /\ JobTyped' /\ AppTyped' /\ LoadTyped'
      BY <1>2, Types DEF ReleaseRequested, LeaseTyped, StateTyped, PromptTyped, ReadyTyped,
         ThreadTyped, JobTyped, AppTyped, LoadTyped
    <3>2. FlagsTyped' BY <1>2, Types DEF ReleaseRequested, storage_release_requested, FlagsTyped
    <3>3. UiTyped'
      BY <1>2, Types DEF ReleaseRequested, storage_release_requested, UiTyped, LeaseTyped
    <3> QED BY <3>1, <3>2, <3>3, TypesPrimed
  <2>2. GrantedInv' BY <1>2 DEF ReleaseRequested, GrantedInv, storage_release_requested
  <2>3. EmptyInv'
    BY <1>2 DEF ReleaseRequested, EmptyInv, Answered, GrantedInv, storage_release_requested
  <2>4. TargetInv'
    BY <1>2 DEF ReleaseRequested, TargetInv, Loading, TypeOK, storage_release_requested
  <2>5. \A a \in OnCard : Loaded(a)' => Loaded(a)
    BY <1>2 DEF ReleaseRequested, Loaded, TypeOK, storage_release_requested
  <2>6. CardInv' BY <1>2, <2>5, StaysLoaded DEF ReleaseRequested, storage_release_requested
  <2> QED BY <2>1, <2>2, <2>3, <2>4, <2>6 DEF IInv
<1>3. CASE ReleaseAnswered
  <2>1. TypeOK' BY <1>3, ForgetTyped DEF ReleaseAnswered, TypeOK, storage_release_requested
  <2>2. GrantedInv' BY <1>3 DEF ReleaseAnswered, GrantedInv, storage_release_requested
  <2>3. EmptyInv'
    BY <1>3 DEF ReleaseAnswered, EmptyInv, Answered, GrantedInv, storage_release_requested
  <2>4. TargetInv'
    BY <1>3 DEF ReleaseAnswered, TargetInv, Loading, TypeOK, storage_release_requested
  <2>5. \A a \in OnCard : Loaded(a)' => Loaded(a)
    BY <1>3 DEF ReleaseAnswered, Loaded, TypeOK, storage_release_requested
  <2>6. CardInv' BY <1>3, <2>5, StaysLoaded DEF ReleaseAnswered, storage_release_requested
  <2> QED BY <2>1, <2>2, <2>3, <2>4, <2>6 DEF IInv
<1>4. CASE StillChanging
  <2>1. TypeOK'
    <3>1. LeaseTyped' /\ StateTyped' /\ PromptTyped' /\ ReadyTyped'
          /\ ThreadTyped' /\ JobTyped' /\ AppTyped' /\ LoadTyped'
      BY <1>4, Types DEF StillChanging, ReleaseOver, LeaseTyped, StateTyped, PromptTyped,
         ReadyTyped, ThreadTyped, JobTyped, AppTyped, LoadTyped
    <3>2. FlagsTyped'
      BY <1>4, Types DEF StillChanging, ReleaseOver, storage_release_requested, storage_changing,
         FlagsTyped
    <3>3. UiTyped'
      BY <1>4, Types DEF StillChanging, ReleaseOver, storage_release_requested, storage_changing,
         UiTyped
    <3> QED BY <3>1, <3>2, <3>3, TypesPrimed
  <2>2. GrantedInv'
    BY <1>4 DEF StillChanging, GrantedInv, ReleaseOver, storage_release_requested, storage_changing
  <2>3. EmptyInv'
    BY <1>4 DEF StillChanging, EmptyInv, Answered, GrantedInv, ReleaseOver,
       storage_release_requested, storage_changing
  <2>4. TargetInv'
    BY <1>4 DEF StillChanging, TargetInv, Loading, TypeOK, ReleaseOver, storage_release_requested,
       storage_changing
  <2>5. \A a \in OnCard : Loaded(a)' => Loaded(a)
    BY <1>4 DEF StillChanging, Loaded, TypeOK, ReleaseOver, storage_release_requested,
       storage_changing
  <2>6. CardInv'
    BY <1>4, <2>5, StaysLoaded DEF StillChanging, ReleaseOver, storage_release_requested,
       storage_changing
  <2> QED BY <2>1, <2>2, <2>3, <2>4, <2>6 DEF IInv
<1>5. CASE StorageNoticed
  <2>1. TypeOK'
    <3>1. LeaseTyped' /\ StateTyped' /\ PromptTyped'
          /\ ThreadTyped' /\ JobTyped' /\ AppTyped' /\ LoadTyped'
      BY <1>5, Types DEF StorageNoticed, ReleaseOver, LeaseTyped, StateTyped, PromptTyped,
         ThreadTyped, JobTyped, AppTyped, LoadTyped
    <3>2. FlagsTyped'
      BY <1>5, Types DEF StorageNoticed, ReleaseOver, storage_changed, storage_release_requested,
         storage_changing, FlagsTyped
    <3>3. ReadyTyped'
      BY <1>5, Types DEF StorageNoticed, ReleaseOver, storage_changed, storage_release_requested,
         storage_changing, ReadyTyped, LeaseTyped
    <3>4. UiTyped'
      BY <1>5, Types DEF StorageNoticed, ReleaseOver, storage_changed, storage_release_requested,
         storage_changing, UiTyped
    <3> QED BY <3>1, <3>2, <3>3, <3>4, TypesPrimed
  <2>2. GrantedInv'
    BY <1>5 DEF StorageNoticed, GrantedInv, ReleaseOver, storage_changed,
       storage_release_requested, storage_changing
  <2>3. EmptyInv'
    BY <1>5 DEF StorageNoticed, EmptyInv, Answered, GrantedInv, ReleaseOver, storage_changed,
       storage_release_requested, storage_changing
  <2>4. TargetInv'
    BY <1>5 DEF StorageNoticed, TargetInv, Loading, TypeOK, ReleaseOver, storage_changed,
       storage_release_requested, storage_changing
  <2>5. \A a \in OnCard : Loaded(a)' => Loaded(a)
    BY <1>5 DEF StorageNoticed, Loaded, TypeOK, ReleaseOver, storage_changed,
       storage_release_requested, storage_changing
  <2>6. CardInv'
    BY <1>5, <2>5, StaysLoaded DEF StorageNoticed, ReleaseOver, storage_changed,
       storage_release_requested, storage_changing
  <2> QED BY <2>1, <2>2, <2>3, <2>4, <2>6 DEF IInv
<1>6. CASE app_installer_process("installer", "stop")
  <2>1. TypeOK'
    <3>1. LeaseTyped' /\ StateTyped' /\ PromptTyped' /\ LoadTyped'
      BY <1>6, Types DEF app_installer_process, LeaseTyped, StateTyped, PromptTyped, LoadTyped
    <3>2. FlagsTyped'
      BY <1>6, Types DEF app_installer_process, start_card_recovery, PrepareJob, Stopped, FlagsTyped
    <3>3. ReadyTyped'
      BY <1>6, Types DEF app_installer_process, start_card_recovery, PrepareJob, Stopped, ReadyTyped
    <3>4. ThreadTyped'
      BY <1>6, Types DEF app_installer_process, start_card_recovery, PrepareJob, Stopped,
         ThreadTyped, ReadyTyped
    <3>5. JobTyped'
      BY <1>6, Types DEF app_installer_process, start_card_recovery, PrepareJob, Stopped, JobTyped
    <3>6. AppTyped'
      BY <1>6, Types, ForgetTyped DEF app_installer_process, start_card_recovery, PrepareJob,
         Stopped, AppTyped
    <3>7. UiTyped'
      BY <1>6, Types DEF app_installer_process, start_card_recovery, PrepareJob, Stopped, UiTyped
    <3> QED BY <3>1, <3>2, <3>3, <3>4, <3>5, <3>6, <3>7, TypesPrimed
  <2>2. GrantedInv'
    BY <1>6 DEF app_installer_process, GrantedInv, start_card_recovery, PrepareJob, Stopped
  <2>3. EmptyInv'
    BY <1>6 DEF app_installer_process, EmptyInv, Answered, GrantedInv, start_card_recovery,
       PrepareJob, Stopped
  <2>4. TargetInv'
    BY <1>6 DEF app_installer_process, TargetInv, Loading, TypeOK, start_card_recovery,
       PrepareJob, Stopped
  <2>5. \A a \in OnCard : Loaded(a)' => Loaded(a)
    BY <1>6 DEF app_installer_process, Loaded, TypeOK, start_card_recovery, PrepareJob, Stopped
  <2>6. CardInv'
    BY <1>6, <2>5, StaysLoaded DEF app_installer_process, start_card_recovery, PrepareJob, Stopped
  <2> QED BY <2>1, <2>2, <2>3, <2>4, <2>6 DEF IInv
<1>7. CASE app_installer_process("jobs", "catalog")
  <2>1. TypeOK'
    <3>1. LeaseTyped' /\ StateTyped' /\ PromptTyped' /\ LoadTyped'
      BY <1>7, Types DEF app_installer_process, LeaseTyped, StateTyped, PromptTyped, LoadTyped
    <3>2. FlagsTyped'
      BY <1>7, Types DEF app_installer_process, start_card_recovery, PrepareJob, Stopped, FlagsTyped
    <3>3. ReadyTyped'
      BY <1>7, Types DEF app_installer_process, start_card_recovery, PrepareJob, Stopped, ReadyTyped
    <3>4. ThreadTyped'
      BY <1>7, Types DEF app_installer_process, start_card_recovery, PrepareJob, Stopped,
         ThreadTyped, ReadyTyped
    <3>5. JobTyped'
      BY <1>7, Types DEF app_installer_process, start_card_recovery, PrepareJob, Stopped, JobTyped
    <3>6. AppTyped'
      BY <1>7, Types, ForgetTyped DEF app_installer_process, start_card_recovery, PrepareJob,
         Stopped, AppTyped
    <3>7. UiTyped'
      BY <1>7, Types DEF app_installer_process, start_card_recovery, PrepareJob, Stopped, UiTyped
    <3> QED BY <3>1, <3>2, <3>3, <3>4, <3>5, <3>6, <3>7, TypesPrimed
  <2>2. GrantedInv'
    BY <1>7 DEF app_installer_process, GrantedInv, start_card_recovery, PrepareJob, Stopped
  <2>3. EmptyInv'
    BY <1>7 DEF app_installer_process, EmptyInv, Answered, GrantedInv, start_card_recovery,
       PrepareJob, Stopped
  <2>4. TargetInv'
    BY <1>7 DEF app_installer_process, TargetInv, Loading, TypeOK, start_card_recovery,
       PrepareJob, Stopped
  <2>5. \A a \in OnCard : Loaded(a)' => Loaded(a)
    BY <1>7 DEF app_installer_process, Loaded, TypeOK, start_card_recovery, PrepareJob, Stopped
  <2>6. CardInv'
    BY <1>7, <2>5, StaysLoaded DEF app_installer_process, start_card_recovery, PrepareJob, Stopped
  <2> QED BY <2>1, <2>2, <2>3, <2>4, <2>6 DEF IInv
<1>8. CASE StopServices
  <2>1. TypeOK' BY <1>8, ForgetTyped DEF StopServices, TypeOK, app_service_process, Stopped
  <2>2. GrantedInv' BY <1>8 DEF StopServices, GrantedInv, app_service_process, Stopped
  <2>3. EmptyInv'
    BY <1>8 DEF StopServices, EmptyInv, Answered, GrantedInv, app_service_process, Stopped
  <2>4. TargetInv'
    BY <1>8 DEF StopServices, TargetInv, Loading, TypeOK, app_service_process, Stopped
  <2>5. \A a \in OnCard : Loaded(a)' => Loaded(a)
    BY <1>8 DEF StopServices, Loaded, TypeOK, app_service_process, Stopped
  <2>6. CardInv' BY <1>8, <2>5, StaysLoaded DEF StopServices, app_service_process, Stopped
  <2> QED BY <2>1, <2>2, <2>3, <2>4, <2>6 DEF IInv
<1>9. CASE app_service_process("services", "jobs", {})
  <2>1. TypeOK' BY <1>9, ForgetTyped DEF app_service_process, TypeOK, Stopped
  <2>2. GrantedInv' BY <1>9 DEF app_service_process, GrantedInv, Stopped
  <2>3. EmptyInv' BY <1>9 DEF app_service_process, EmptyInv, Answered, GrantedInv, Stopped
  <2>4. TargetInv' BY <1>9 DEF app_service_process, TargetInv, Loading, TypeOK, Stopped
  <2>5. \A a \in OnCard : Loaded(a)' => Loaded(a)
    BY <1>9 DEF app_service_process, Loaded, TypeOK, Stopped
  <2>6. CardInv' BY <1>9, <2>5, StaysLoaded DEF app_service_process, Stopped
  <2> QED BY <2>1, <2>2, <2>3, <2>4, <2>6 DEF IInv
<1>10. CASE NoInput
  <2>1. TypeOK' BY <1>10, ForgetTyped DEF NoInput, TypeOK
  <2>2. GrantedInv' BY <1>10 DEF NoInput, GrantedInv
  <2>3. EmptyInv' BY <1>10 DEF NoInput, EmptyInv, Answered, GrantedInv
  <2>4. TargetInv' BY <1>10 DEF NoInput, TargetInv, Loading, TypeOK
  <2>5. \A a \in OnCard : Loaded(a)' => Loaded(a) BY <1>10 DEF NoInput, Loaded, TypeOK
  <2>6. CardInv' BY <1>10, <2>5, StaysLoaded DEF NoInput
  <2> QED BY <2>1, <2>2, <2>3, <2>4, <2>6 DEF IInv
<1>11. CASE AnswerPrompt
  <2>1. TypeOK'
    <3>1. LeaseTyped' /\ StateTyped' /\ JobTyped' /\ AppTyped' /\ LoadTyped'
      BY <1>11, Types DEF AnswerPrompt, LeaseTyped, StateTyped, JobTyped, AppTyped, LoadTyped
    <3>2. FlagsTyped' BY <1>11, Types DEF AnswerPrompt, Dismiss, FlagsTyped
    <3>3. PromptTyped' BY <1>11, Types DEF AnswerPrompt, Dismiss, PromptTyped
    <3>4. ReadyTyped' BY <1>11, Types DEF AnswerPrompt, Dismiss, ReadyTyped
    <3>5. ThreadTyped' BY <1>11, Types DEF AnswerPrompt, Dismiss, ThreadTyped
    <3>6. UiTyped' BY <1>11, Types DEF AnswerPrompt, Dismiss, UiTyped
    <3> QED BY <3>1, <3>2, <3>3, <3>4, <3>5, <3>6, TypesPrimed
  <2>2. GrantedInv' BY <1>11 DEF AnswerPrompt, GrantedInv, Dismiss
  <2>3. EmptyInv' BY <1>11 DEF AnswerPrompt, EmptyInv, Answered, GrantedInv, Dismiss
  <2>4. TargetInv' BY <1>11 DEF AnswerPrompt, TargetInv, Loading, TypeOK, Dismiss
  <2>5. \A a \in OnCard : Loaded(a)' => Loaded(a) BY <1>11 DEF AnswerPrompt, Loaded, TypeOK, Dismiss
  <2>6. CardInv' BY <1>11, <2>5, StaysLoaded DEF AnswerPrompt, Dismiss
  <2> QED BY <2>1, <2>2, <2>3, <2>4, <2>6 DEF IInv
<1>12. CASE \E a \in Apps : OpenPage(a)
  <2>1. TypeOK' BY <1>12, ForgetTyped DEF OpenPage, TypeOK
  <2>2. GrantedInv' BY <1>12 DEF OpenPage, GrantedInv
  <2>3. EmptyInv' BY <1>12 DEF OpenPage, EmptyInv, Answered, GrantedInv
  <2>4. TargetInv' BY <1>12 DEF OpenPage, TargetInv, Loading, TypeOK
  <2>5. \A a \in OnCard : Loaded(a)' => Loaded(a) BY <1>12 DEF OpenPage, Loaded, TypeOK
  <2>6. CardInv' BY <1>12, <2>5, StaysLoaded DEF OpenPage
  <2> QED BY <2>1, <2>2, <2>3, <2>4, <2>6 DEF IInv
<1>13. CASE \E a \in Apps : ClosePage(a)
  <2>1. TypeOK' BY <1>13, ForgetTyped DEF ClosePage, TypeOK
  <2>2. GrantedInv' BY <1>13 DEF ClosePage, GrantedInv
  <2>3. EmptyInv' BY <1>13 DEF ClosePage, EmptyInv, Answered, GrantedInv
  <2>4. TargetInv' BY <1>13 DEF ClosePage, TargetInv, Loading, TypeOK
  <2>5. \A a \in OnCard : Loaded(a)' => Loaded(a) BY <1>13 DEF ClosePage, Loaded, TypeOK
  <2>6. CardInv' BY <1>13, <2>5, StaysLoaded DEF ClosePage
  <2> QED BY <2>1, <2>2, <2>3, <2>4, <2>6 DEF IInv
<1>14. CASE \E a \in Apps : app_installer_start(a)
  <2>1. TypeOK'
    <3>1. LeaseTyped' /\ StateTyped' /\ PromptTyped'
          /\ ReadyTyped' /\ ThreadTyped' /\ AppTyped' /\ LoadTyped'
      BY <1>14, Types DEF app_installer_start, LeaseTyped, StateTyped, PromptTyped, ReadyTyped,
         ThreadTyped, AppTyped, LoadTyped
    <3>2. FlagsTyped' BY <1>14, Types DEF app_installer_start, FlagsTyped
    <3>3. JobTyped' BY <1>14, Types DEF app_installer_start, JobTyped, LeaseTyped
    <3>4. UiTyped' BY <1>14, Types DEF app_installer_start, UiTyped
    <3> QED BY <3>1, <3>2, <3>3, <3>4, TypesPrimed
  <2>2. GrantedInv' BY <1>14 DEF app_installer_start, GrantedInv
  <2>3. EmptyInv' BY <1>14 DEF app_installer_start, EmptyInv, Answered, GrantedInv
  <2>4. TargetInv' BY <1>14 DEF app_installer_start, TargetInv, Loading, TypeOK
  <2>5. \A a \in OnCard : Loaded(a)' => Loaded(a) BY <1>14 DEF app_installer_start, Loaded, TypeOK
  <2>6. CardInv' BY <1>14, <2>5, StaysLoaded DEF app_installer_start
  <2> QED BY <2>1, <2>2, <2>3, <2>4, <2>6 DEF IInv
<1>15. CASE app_catalog_process
  <2>1. TypeOK'
    <3>1. LeaseTyped' /\ StateTyped' /\ PromptTyped'
          /\ ReadyTyped' /\ ThreadTyped' /\ JobTyped' /\ AppTyped'
      BY <1>15, Types DEF app_catalog_process, LeaseTyped, StateTyped, PromptTyped, ReadyTyped,
         ThreadTyped, JobTyped, AppTyped
    <3>2. FlagsTyped' BY <1>15, Types DEF app_catalog_process, FlagsTyped
    <3>3. UiTyped' BY <1>15, Types DEF app_catalog_process, UiTyped
    <3>4. LoadTyped' BY <1>15, Types DEF app_catalog_process, LoadTyped
    <3> QED BY <3>1, <3>2, <3>3, <3>4, TypesPrimed
  <2>2. GrantedInv' BY <1>15 DEF app_catalog_process, GrantedInv
  <2>3. EmptyInv' BY <1>15 DEF app_catalog_process, EmptyInv, Answered, GrantedInv
  <2>4. TargetInv' BY <1>15 DEF app_catalog_process, TargetInv, Loading, TypeOK
  <2>5. \A a \in OnCard : Loaded(a)' => Loaded(a) BY <1>15 DEF app_catalog_process, Loaded, TypeOK
  <2>6. CardInv' BY <1>15, <2>5, StaysLoaded DEF app_catalog_process
  <2> QED BY <2>1, <2>2, <2>3, <2>4, <2>6 DEF IInv
<1>16. CASE StartNext
  <2>1. TypeOK' BY <1>16, ForgetTyped DEF StartNext, TypeOK
  <2>2. GrantedInv' BY <1>16 DEF StartNext, GrantedInv
  <2>3. EmptyInv' BY <1>16 DEF StartNext, EmptyInv, Answered, GrantedInv
  <2>4. TargetInv' BY <1>16 DEF StartNext, TargetInv, Loading, TypeOK
  <2>5. \A a \in OnCard : Loaded(a)' => Loaded(a) BY <1>16 DEF StartNext, Loaded, TypeOK
  <2>6. CardInv' BY <1>16, <2>5, StaysLoaded DEF StartNext
  <2> QED BY <2>1, <2>2, <2>3, <2>4, <2>6 DEF IInv
<1> QED BY <1>1, <1>2, <1>3, <1>4, <1>5, <1>6, <1>7, <1>8, <1>9, <1>10, <1>11, <1>12, <1>13,
     <1>14, <1>15, <1>16 DEF launcher_storage_process, epd_input_process

\* The answer.
LEMMA AnswerKeeps ==
  ASSUME IInv, ReleaseStorage
  PROVE  IInv'
<1> USE PlatformAssumption DEF PlatformAssumption
<1> /\ TypeOK /\ GrantedInv /\ EmptyInv /\ CardInv /\ TargetInv BY DEF IInv
<1>1. TypeOK'
  <2>1. StateTyped' /\ PromptTyped' /\ ReadyTyped' /\ ThreadTyped' /\ JobTyped' /\ LoadTyped'
    BY Types DEF ReleaseStorage, StateTyped, PromptTyped, ReadyTyped, ThreadTyped, JobTyped,
       LoadTyped
  <2>2. FlagsTyped' BY Types DEF ReleaseStorage, Lease!Answer, FlagsTyped
  <2>3. LeaseTyped' BY Types DEF ReleaseStorage, Lease!Answer, LeaseTyped
  <2>4. AppTyped' BY Types, ForgetTyped DEF ReleaseStorage, Lease!Answer, AppTyped
  <2>5. UiTyped' BY Types DEF ReleaseStorage, Lease!Answer, UiTyped
  <2> QED BY <2>1, <2>2, <2>3, <2>4, <2>5, TypesPrimed
<1>2. GrantedInv' BY DEF ReleaseStorage, GrantedInv, Lease!Answer
<1>3. EmptyInv'
  BY DEF ReleaseStorage, EmptyInv, Answered, GrantedInv, Lease!Answer, Empty, app_installer_busy
<1>4. TargetInv' BY DEF ReleaseStorage, TargetInv, Loading
<1>5. CardInv'
  <2>1. CASE Empty /\ request = releasing
    <3>1. \A a \in OnCard : ~Loaded(a)' BY <2>1 DEF ReleaseStorage, Empty, Loaded
    <3> QED BY <3>1 DEF CardInv
  <2>2. CASE ~(Empty /\ request = releasing)
    <3>1. \A a \in OnCard : Loaded(a)' => Loaded(a) BY <2>2 DEF ReleaseStorage, Loaded
    <3> QED BY <2>2, <3>1, StaysLoaded DEF ReleaseStorage
  <2> QED BY <2>1, <2>2
<1> QED BY <1>1, <1>2, <1>3, <1>4, <1>5 DEF IInv

\* A load.
LEMMA LoadKeeps ==
  ASSUME IInv, module_open
  PROVE  IInv'
<1> USE PlatformAssumption DEF PlatformAssumption
<1> /\ TypeOK /\ GrantedInv /\ EmptyInv /\ CardInv /\ TargetInv BY DEF IInv
<1>l. Loading /\ target \in Apps
  BY DEF module_open, OpenModule, ReadModule, LoadModule, StartModule, TargetInv, Loading
<1>a. ~Answered BY <1>l DEF EmptyInv, Loading
<1>g. GrantedInv' BY DEF module_open, OpenModule, ReadModule, LoadModule, StartModule, GrantedInv
<1>e. EmptyInv'
  BY <1>a DEF module_open, OpenModule, ReadModule, LoadModule, StartModule, EmptyInv, Answered
<1>t. TargetInv'
  BY <1>l DEF module_open, OpenModule, ReadModule, LoadModule, StartModule, LoadEnds, TargetInv,
     Loading
<1>1. CASE OpenModule
  <2>1. TypeOK'
    <3>1. LeaseTyped' /\ StateTyped' /\ PromptTyped'
          /\ ReadyTyped' /\ ThreadTyped' /\ JobTyped' /\ AppTyped'
      BY <1>1, Types DEF OpenModule, LeaseTyped, StateTyped, PromptTyped, ReadyTyped, ThreadTyped,
         JobTyped, AppTyped
    <3>2. FlagsTyped' BY <1>1, Types DEF OpenModule, LoadEnds, FlagsTyped
    <3>3. UiTyped' BY <1>1, Types DEF OpenModule, LoadEnds, UiTyped
    <3>4. LoadTyped' BY <1>1, Types DEF OpenModule, LoadEnds, LoadTyped
    <3> QED BY <3>1, <3>2, <3>3, <3>4, TypesPrimed
  <2>2. \A a \in OnCard : Loaded(a)' => Loaded(a) BY <1>1 DEF OpenModule, LoadEnds, Loaded
  <2>3. CardInv' BY <1>1, <2>2, StaysLoaded DEF OpenModule
  <2> QED BY <1>g, <1>e, <1>t, <2>1, <2>3 DEF IInv
<1>2. CASE ReadModule
  <2>1. session' \in [Apps -> Id] BY <1>2, SessionsTyped DEF ReadModule, TypeOK
  <2>2. TypeOK'
    <3>1. LeaseTyped' /\ StateTyped' /\ PromptTyped' /\ ReadyTyped' /\ ThreadTyped' /\ JobTyped'
      BY <1>2, <2>1, Types DEF ReadModule, LeaseTyped, StateTyped, PromptTyped, ReadyTyped,
         ThreadTyped, JobTyped
    <3>2. FlagsTyped' BY <1>2, <2>1, Types DEF ReadModule, LoadEnds, FlagsTyped
    <3>3. AppTyped'
      BY <1>2, <2>1, Types, ForgetTyped, SessionsTyped DEF ReadModule, LoadEnds, AppTyped
    <3>4. UiTyped' BY <1>2, <2>1, Types DEF ReadModule, LoadEnds, UiTyped
    <3>5. LoadTyped' BY <1>2, <2>1, Types DEF ReadModule, LoadEnds, LoadTyped, LeaseTyped
    <3> QED BY <3>1, <3>2, <3>3, <3>4, <3>5, TypesPrimed
  <2>3. CardInv'
    <3> SUFFICES ASSUME NEW a \in OnCard, Loaded(a)'
                 PROVE  (mounted /\ ~(request # 0 /\ answered))'
      BY DEF CardInv
    <3>1. CASE Loaded(a) BY <1>2, <3>1 DEF ReadModule, CardInv
    <3>2. CASE ~Loaded(a)
      <4>1. ui' = "load" /\ a = target BY <1>2, <3>2 DEF ReadModule, LoadEnds, Loaded
      <4>2. storage_apps_enabled("sd") BY <1>2, <4>1 DEF ReadModule, LoadEnds, Volume
      <4> QED BY <1>2, <4>2 DEF ReadModule, storage_apps_enabled, GrantedInv
    <3> QED BY <3>1, <3>2
  <2> QED BY <1>g, <1>e, <1>t, <2>2, <2>3 DEF IInv
<1>3. CASE LoadModule
  <2>1. TypeOK'
    <3>1. LeaseTyped' /\ StateTyped' /\ PromptTyped' /\ ReadyTyped' /\ ThreadTyped' /\ JobTyped'
      BY <1>3, Types DEF LoadModule, LeaseTyped, StateTyped, PromptTyped, ReadyTyped, ThreadTyped,
         JobTyped
    <3>2. FlagsTyped' BY <1>3, Types DEF LoadModule, LoadEnds, FlagsTyped
    <3>3. AppTyped' BY <1>3, Types, ForgetTyped DEF LoadModule, LoadEnds, AppTyped
    <3>4. UiTyped' BY <1>3, Types DEF LoadModule, LoadEnds, UiTyped
    <3>5. LoadTyped' BY <1>3, Types DEF LoadModule, LoadEnds, LoadTyped
    <3> QED BY <3>1, <3>2, <3>3, <3>4, <3>5, TypesPrimed
  <2>2. \A a \in OnCard : Loaded(a)' => Loaded(a) BY <1>3 DEF LoadModule, LoadEnds, Loaded
  <2>3. CardInv' BY <1>3, <2>2, StaysLoaded DEF LoadModule
  <2> QED BY <1>g, <1>e, <1>t, <2>1, <2>3 DEF IInv
<1>4. CASE StartModule
  <2>1. TypeOK'
    <3>1. LeaseTyped' /\ StateTyped' /\ PromptTyped' /\ ReadyTyped' /\ ThreadTyped' /\ JobTyped'
      BY <1>l, <1>4, Types DEF StartModule, LeaseTyped, StateTyped, PromptTyped, ReadyTyped,
         ThreadTyped, JobTyped
    <3>2. FlagsTyped' BY <1>l, <1>4, Types DEF StartModule, LoadEnds, FlagsTyped
    <3>3. AppTyped' BY <1>l, <1>4, Types, ForgetTyped DEF StartModule, LoadEnds, AppTyped
    <3>4. UiTyped' BY <1>l, <1>4, Types DEF StartModule, LoadEnds, UiTyped
    <3>5. LoadTyped' BY <1>l, <1>4, Types DEF StartModule, LoadEnds, LoadTyped
    <3> QED BY <3>1, <3>2, <3>3, <3>4, <3>5, TypesPrimed
  <2>2. \A a \in OnCard : Loaded(a)' => Loaded(a) BY <1>4 DEF StartModule, LoadEnds, Loaded, TypeOK
  <2>3. CardInv' BY <1>4, <2>2, StaysLoaded DEF StartModule
  <2> QED BY <1>g, <1>e, <1>t, <2>1, <2>3 DEF IInv
<1> QED BY <1>1, <1>2, <1>3, <1>4 DEF module_open

-----------------------------------------------------------------------------
\* At the start no card is there and nothing is loaded.
LEMMA StartsEmpty == Init => IInv
<1> SUFFICES ASSUME Init PROVE IInv OBVIOUS
<1>1. TypeOK
  <2> USE PlatformAssumption DEF PlatformAssumption
  <2>1. LeaseTyped /\ StateTyped BY DEF Init, Lease!Init, LeaseTyped, StateTyped
  <2>5. FlagsTyped BY DEF Init, Lease!Init, FlagsTyped
  <2>2. PromptTyped /\ ReadyTyped /\ ThreadTyped BY DEF Init, PromptTyped, ReadyTyped, ThreadTyped
  <2>3. JobTyped /\ AppTyped BY DEF Init, JobTyped, AppTyped
  <2>4. UiTyped /\ LoadTyped BY DEF Init, UiTyped, LoadTyped
  <2> QED BY <2>1, <2>2, <2>3, <2>4, <2>5, Types
<1>2. GrantedInv /\ EmptyInv /\ TargetInv
  BY DEF Init, Lease!Init, GrantedInv, EmptyInv, Answered, TargetInv, Loading
<1>3. CardInv BY PlatformAssumption DEF PlatformAssumption, Init, CardInv, Loaded
<1> QED BY <1>1, <1>2, <1>3 DEF IInv

\* The invariant is kept by every step.
LEMMA StepKeeps == IInv /\ [Next]_vars => IInv'
<1>1. ASSUME IInv, UNCHANGED vars PROVE IInv'
  BY <1>1 DEF vars, IInv, TypeOK, GrantedInv, EmptyInv, Answered, CardInv, Loaded, TargetInv,
       Loading
<1>2. ASSUME IInv, UiStep PROVE IInv'
  BY <1>2, PassKeeps, AnswerKeeps, LoadKeeps DEF UiStep
<1> QED BY <1>1, <1>2, CardKeeps, ThreadsKeep DEF Next

\* The platform answers a release only when nothing is left that could use a volume,
\* and nothing comes after that; no code of a card is in memory without the card's
\* file system.  This is launcher_storage_process (launcher.c:553), which looks at
\* services, jobs and recovery one after the other, against all that may start them.
THEOREM AnswerIsEmpty == Spec => []AnswerMeansEmpty
<1>1. IInv => AnswerMeansEmpty
  <2> SUFFICES ASSUME IInv PROVE AnswerMeansEmpty OBVIOUS
  <2>1. Answered => (\A a \in Apps : ~Loaded(a)) /\ job # "run" /\ LockFree
    BY DEF IInv, EmptyInv, Loaded, LockFree
  <2> QED BY <2>1 DEF IInv, AnswerMeansEmpty, Answered, CardInv
<1> QED BY <1>1, StartsEmpty, StepKeeps, PTL DEF Spec
=============================================================================
