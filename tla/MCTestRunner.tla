---------------------------- MODULE MCTestRunner ----------------------------
(* A cut of the project's own tree of tests: main has the children World/  *)
(* and Noise/, World/ has the child Intersect/, and the names of two tests *)
(* of Intersect/ start alike.                                              *)
EXTENDS TestRunner

CONSTANTS main, world, noise, intersect,               \* suites
          shade, hit_info, hit_info_inside, perlin     \* tests

MCSuites == {main, world, noise, intersect}
MCTests == {shade, hit_info, hit_info_inside, perlin}

MCName ==
  [x \in MCSuites \cup MCTests |->
     CASE x = main -> <<>>
       [] x = world -> <<"World/">>
       [] x = noise -> <<"Noise/">>
       [] x = intersect -> <<"Intersect/">>
       [] x = shade -> <<"Shade">>
       [] x = hit_info -> <<"Hit_Info">>
       [] x = hit_info_inside -> <<"Hit_Info", "_Inside">>
       [] x = perlin -> <<"Perlin">>]

MCTestsOf ==
  [s \in MCSuites |->
     CASE s = main -> <<>>
       [] s = world -> <<shade>>
       [] s = noise -> <<perlin>>
       [] s = intersect -> <<hit_info, hit_info_inside>>]

MCChildren ==
  [s \in MCSuites |->
     CASE s = main -> <<world, noise>>
       [] s = world -> <<intersect>>
       [] OTHER -> <<>>]

MCHooked == {world, intersect}

MCPrefixes ==
  {<<>>, <<"Noise/">>, <<"World/">>, <<"World/", "Intersect/">>,
   <<"World/", "Intersect/", "Hit_Info">>,
   <<"World/", "Intersect/", "Hit_Info", "_Inside">>,
   <<"World/", "Intersect/", "Missing">>, <<"Camera/">>}
=============================================================================
