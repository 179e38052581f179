---------------------------- MODULE MCQliteBroker ----------------------------
(***************************************************************************)
(* A small broker: image jobs with two concurrent handlers that publish an *)
(* album notice on success, as index_image does with album_changed, and a  *)
(* body for a topic that has no consumer.  Of the other bodies one has two *)
(* follow-ups, a struct, as the payloads of add-dir are, and one that has  *)
(* a follow-up itself; another leads, two follow-ups deep, to the topic    *)
(* nobody consumes.                                                        *)
(***************************************************************************)
EXTENDS QliteBroker

CONSTANTS image, album, job, notice, stray, noTopic, struct, mid, chain, bad, deep

MCTopics == {image, album}
MCTopicOf == [b \in Bodies |-> CASE b \in {job, chain, deep} -> image
                                 [] b \in {notice, struct, mid, bad} -> album
                                 [] b = stray -> noTopic]
MCOnSuccess == [b \in Bodies |-> CASE b \in {job, mid} -> <<notice>>
                                   [] b = chain -> <<struct, mid>>
                                   [] b = bad -> <<stray>>
                                   [] b = deep -> <<bad>>
                                   [] OTHER -> << >>]
MCReloads == Bodies \ {struct}
MCConcurrency == [t \in MCTopics |-> IF t = image THEN 2 ELSE 1]
MCUid6 == 1..6

CrashOrFault == budget["crash"] = MaxCrashes \/ budget["fault"] = MaxFaults

OneTrouble ==
  \/ budget["publish"] > 0
  \/ budget["fault"] = MaxFaults /\ budget["retry"] = MaxRetries

\* Two publications, of jobs and notices only.
TwoJobs ==
  /\ budget["crash"] = MaxCrashes /\ OneTrouble
  /\ \A i \in DOMAIN rows : rows[i].body \in {job, notice}
  /\ \A a \in archive : a.body \in {job, notice}

\* One publication, of any body.
OneOfAny ==
  /\ budget["publish"] >= MaxPublish - 1
  /\ budget["retry"] = MaxRetries /\ CrashOrFault

StepCases == TwoJobs \/ OneOfAny
=============================================================================
