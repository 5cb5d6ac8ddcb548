----------------------------- MODULE MCAdminJobs -----------------------------
(* Public retries, an administrator refresh and an onboarding.             *)
EXTENDS AdminJobs, TLC

CONSTANTS retry1, retry2, refresh, onboarding, dashboard, admin, token

HomeOne  == [j \in Jobs |-> dashboard]
HomeTwo  == [j \in Jobs |-> IF j = onboarding THEN admin ELSE dashboard]
KindOf   == [j \in Jobs |-> CASE j \in {retry1, retry2} -> "retry"
                              [] j = refresh -> "refresh"
                              [] j = onboarding -> "onboarding"]
Alike    == Permutations({retry1, retry2})
TokenOf  == [j \in Jobs |-> token]
=============================================================================
