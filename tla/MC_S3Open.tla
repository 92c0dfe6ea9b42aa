----------------------------- MODULE MC_S3Open -----------------------------
(***************************************************************************)
(* A bucket for S3Open: an organization prefix with two accounts and one  *)
(* non-account sub-prefix (a third account id has no logs), three region *)
(* prefixes, and keys on both sides of the interval [2, 3] (timestamps   *)
(* 0..5, two units a day).                                               *)
(***************************************************************************)
EXTENDS S3Open

CONSTANTS a1, a2, a3, x, r1, r2, k1, k2, k3, k4, k5, k6, Short

OrgDirsDef == <<a1, x, a2>>
RegionsDef == (a1 :> <<r1, r2>>) @@ (a2 :> <<r1>>)
PagesDef ==
  (<<a1, r1>> :> <<<<k1, k2>>, <<k3>>>>) @@
  (<<a1, r2>> :> <<<<k4, k5>>>>) @@
  (<<a2, r1>> :> <<<<k6>>>>) @@
  (Raw :> <<<<k1, k2, k3>>, <<k4, k5, k6>>>>)
ExtDef == (k1 :> "json") @@ (k2 :> "gz") @@ (k3 :> "gz") @@
          (k4 :> "json") @@ (k5 :> "other") @@ (k6 :> "gz")
TSDef == (k1 :> 1) @@ (k2 :> 2) @@ (k3 :> 4) @@
         (k4 :> NoTS) @@ (k5 :> 3) @@ (k6 :> 3)

\* The day folder of every key: that of its timestamp, and for the undated
\* k4 a later folder than any start day (DayOfDef) or an earlier one.
DayOfDef == (k1 :> 0) @@ (k2 :> 1) @@ (k3 :> 2) @@ (k4 :> 2) @@ (k5 :> 1) @@ (k6 :> 1)
DayOfEarly == [DayOfDef EXCEPT ![k4] = 0]

\* Listing calls that may fail.
FailOrg == {<<"accounts">>, <<"regions", a2>>, <<"page", <<a1, r1>>, 1>>,
            <<"page", <<a1, r1>>, 2>>, <<"page", <<a1, r2>>, 1>>,
            <<"page", <<a2, r1>>, 1>>}
FailPages == {<<"page", <<a1, r1>>, 2>>, <<"page", <<a1, r2>>, 1>>}
FailOpen == (FailOrg \ {<<"regions", a2>>}) \cup FailPages
FailRegions == {<<"regions", a1>>}
FailNone == {}
NoAccountList == {<<>>}
\* No interval, a window, an open-ended start, a window past every key,
\* and an end before the start.
IntervalsDef == {<<NoTime, NoTime>>, <<2, 3>>, <<2, NoTime>>, <<0, 5>>, <<3, 2>>}
NoInterval == {<<NoTime, NoTime>>}
Window == {<<2, 3>>}
\* S3AccountList values: unset, "a2, a1", " a1 ", and four the regular
\* expression rejects: "a1,,a2", a short digit run, " " and ",a1".
AccountListDef == {<<>>, <<a2, ",", " ", a1>>, <<" ", a1, " ">>,
                   <<a1, ",", ",", a2>>, <<Short>>, <<" ">>, <<",", a1>>}
\* "a1," : a trailing comma, which the regular expression accepts.
TrailingComma == {<<a1, ",">>}

=============================================================================
