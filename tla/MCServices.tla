------------------------------ MODULE MCServices ------------------------------
EXTENDS Services
CONSTANT nan
MCLimits == {<<-1, 1>>, <<0, 0>>, <<0, nan>>}
MCTargets == {<<0, 0>>, <<2, 0>>, <<nan, 0>>, <<0, 0, nan>>}
\* The limits and who is checked against them; the tables; model; licence; log.
MCApis == {{"connect", "setLimits", "resetParams", "movej", "moveP", "disable"},
           {"connect", "allParams", "getParam", "movej"},
           {"moveJs", "setFf", "getFf", "setMask", "payload"},
           {"setBody", "getBody", "setJm", "getJm", "commit", "revert", "modelStatus", "disable"},
           {"license", "activate", "enable", "save"}, {"capture"},
           {"logStart", "logStop", "dump"}, {"probe", "getBody"}, {"ik", "setting", "kinBench"}}
=============================================================================
