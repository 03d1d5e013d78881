---------------------------- MODULE MCSapiManager ---------------------------
EXTENDS SapiManager

MCExes == 1..3

MCProviderOf == <<"p", "p", "m">>

MCAnswers == <<"control", "none", "paired">>

MCOwner == [v1 |-> "p", v2 |-> "p", w1 |-> "m"]

MCVoices == {"v1", "v2", "w1"}

MCZips ==
    {[valid |-> TRUE, main |-> 1, files |-> {1, 2}, version |-> 2],
     [valid |-> TRUE, main |-> 1, files |-> {1}, version |-> 2],
     [valid |-> FALSE, main |-> 0, files |-> {}, version |-> 0]}

MCSetups ==
    <<[version |-> 1, uninstall |-> FALSE], [version |-> 2, uninstall |-> FALSE],
      [version |-> 1, uninstall |-> TRUE]>>

Nothing ==
    [fault |-> 0, crash |-> 0, refresh |-> 0, close |-> 0, configure |-> 0, dialog |-> 0,
     toggle |-> 0, save |-> 0, engine |-> 0, launch |-> 0, open |-> 0, break |-> 0,
     click |-> 0]

Plan(version, packages, registered, wizards, times) ==
    [installed |-> version, disk |-> packages, voices |-> registered, setups |-> wizards,
     left |-> times]

Discovering ==
    Plan(1, <<1, 1, 1>>, {}, {}, [Nothing EXCEPT !.open = 1, !.refresh = 1])

Reopening ==
    Plan(1, <<1, 1, 0>>, {}, {}, [Nothing EXCEPT !.open = 2, !.close = 1, !.crash = 1, !.configure = 1])

Registering ==
    Plan(1, <<1, 1, 0>>, {"v1"}, {},
         [Nothing EXCEPT !.open = 1, !.toggle = 1, !.save = 1, !.fault = 1, !.launch = 1,
                         !.engine = 1])

Installing ==
    Plan(1, <<1, 1, 0>>, {}, {},
         [Nothing EXCEPT !.open = 1, !.dialog = 1, !.fault = 1, !.click = 2])

SettingUp ==
    Plan(0, <<0, 0, 0>>, {}, {1, 2, 3}, [Nothing EXCEPT !.fault = 1, !.break = 1, !.click = 4])

Forgetting ==
    Plan(1, <<1, 1, 0>>, {"v1"}, {3},
         [Nothing EXCEPT !.open = 1, !.save = 1, !.close = 1, !.fault = 1, !.click = 1])

MCPlans == {Discovering, Reopening, Registering, Installing, SettingUp, Forgetting}
=============================================================================
