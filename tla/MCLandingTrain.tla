---- MODULE MCLandingTrain ----
EXTENDS LandingTrain

\* A pre-stacked wave of three, a stacked pair and a branch apart, or three branches
\* apart; the second needs the first.
Wave == <<{}, {1}, {1, 2}>>
Pair == <<{}, {1}, {}>>
Apart == <<{}, {}, {}>>
OneWave == {Wave}
Shapes == {Wave, Pair, Apart}
Chain == {<<2, 1>>}
====
