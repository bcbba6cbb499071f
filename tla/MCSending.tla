----------------------------- MODULE MCSending -----------------------------
(* A day of four hours of four minutes, windows looked for at every second *)
(* minute for a day.  ann has a phone only, bob a phone and an email;      *)
(* nights are closed on every channel, and the phones' region is also shut *)
(* for SMS in the evening; a siesta is kept on every other day.            *)
EXTENDS Sending

CONSTANTS ann, bob, eve, tel1, tel2, mail2, mail3, R

MCPersons  == <<ann, bob, eve>>
MCChannels == <<"sms", "email">>
MCOrder    == <<"sms", "email">>

NoAddress   == [c \in {"sms", "email"} |-> Nothing]
MCAddressOf == ann :> [NoAddress EXCEPT !["sms"] = tel1] @@
               bob :> [sms |-> tel2, email |-> mail2] @@ eve :> [NoAddress EXCEPT !["email"] = mail3]
MCRegionOf  == tel1 :> R @@ tel2 :> R @@ mail2 :> Nothing @@ mail3 :> Nothing
Utc         == [before |-> 0, after |-> 0, change |-> 0]
East        == [before |-> 8, after |-> 4, change |-> 52]
West        == [before |-> -4, after |-> -8, change |-> 46]
Spring      == [before |-> 4, after |-> 8, change |-> 46]
MCZoneOf    == R :> East @@ Nothing :> Utc

Hours == 0..3
Days  == 0..1
Asked == {"sms", "email"} \X {R, Nothing} \X Hours \X Days
Shut(channels, hours, days) ==
  [x \in {y \in Asked : y[1] \in channels} |-> IF x[3] \in hours /\ x[4] \in days THEN "deny" ELSE "allow"]
WindowRule(scope, region, answers) == [scope |-> scope, region |-> region, kind |-> "sending_window", answers |-> answers]

MCRule ==
  "night" :> WindowRule("platform", Nothing, Shut({"sms", "email"}, {0}, Days)) @@
  "broken" :> WindowRule("platform", Nothing, [x \in Asked |-> Nothing]) @@
  "evening" :> WindowRule("region", R, Shut({"sms"}, {1, 3}, Days)) @@
  "siesta" :> WindowRule("tenant", Nothing, Shut({"sms", "email"}, {2}, {1})) @@
  "email" :> [scope |-> "tenant", region |-> Nothing, kind |-> "channel_selection",
              answers |-> [x \in SUBSET {"sms", "email"} |-> <<"email", "sms">>]]

MCShutRule == [MCRule EXCEPT !["evening"].answers = Shut({"sms"}, Hours, Days)]

MCTags      == [p \in {ann, bob, eve} |-> {"vip"}]
MCCompanyOf == [p \in {ann, bob, eve} |-> IF p = eve THEN Nothing ELSE "firm"]
MCSearch    == [kind |-> "search", companies |-> {}, tags |-> {"vip"}, channels |-> {"sms"}]
MCStatic    == [kind |-> "static", members |-> {ann, bob}]

Grant(c, a, at) == [channel |-> c, address |-> a, status |-> "granted", at |-> at]
MCGranted   == <<Grant("sms", tel1, 30), Grant("sms", tel2, 30), Grant("email", mail2, 30)>>
MCDecisions == {Grant("sms", tel1, 31), [Grant("sms", tel1, Nothing) EXCEPT !.status = "revoked"]}
MCBlocks    == {[scope |-> "tenant", channel |-> "email", address |-> mail2],
                [scope |-> "platform", channel |-> "sms", address |-> tel1]}

Every(spec) == {Star(spec)}
At(v)       == {Item(v, v, 1)}
EveryDay(minutes, hours) ==
  [minutes |-> minutes, hours |-> hours, daysOfMonth |-> Every(<<1, 4>>), months |-> Every(<<1, 2>>),
   daysOfWeek |-> Every(<<0, 2>>)]
OnSomeDays == [EveryDay(At(1), Every(<<0, 3>>)) EXCEPT !.daysOfMonth = At(4), !.daysOfWeek = At(2)]
Recur(cron, from, maxRuns, until) ==
  [cron |-> cron, scheduledAt |-> from, maxRuns |-> maxRuns, endsAt |-> until]
MCPlans == {<<Recur(EveryDay(At(2), {Item(1, 3, 2)}), 0, 3, 80), West>>,
            <<Recur(EveryDay({Item(0, 3, 2)}, At(2)), 46, 2, 60), Spring>>,
            <<Recur(OnSomeDays, 0, 3, 80), East>>,
            <<Recur(EveryDay(At(5), At(2)), 0, 3, 80), East>>}
MCOnce  == {<<Recur(Nothing, 0, 1, 80), Utc>>}
=============================================================================
