---------------------------- MODULE MCMqttSession ----------------------------
(***************************************************************************)
(* Two devices with topics of their own, with the same topic, and one      *)
(* without a topic, when the wildcard is subscribed as well.               *)
(***************************************************************************)
EXTENDS MqttSession

Configuration(topics, retries, all) ==
  [statusTopic |-> topics, maxRetries |-> retries, wildcard |-> all]

MCConfigs == {Configuration(<<"t", "u">>, 0, FALSE), Configuration(<<"t", "t">>, 1, FALSE),
              Configuration(<<"none", "t">>, 2, TRUE)}

==============================================================================
