-------------------------------- MODULE Mood --------------------------------
(***************************************************************************)
(* The mood of the dog (core/mood.py): at each epoch boundary of its own   *)
(* logical clock a hash picks the next mood, which may be the same one.    *)
(***************************************************************************)
EXTENDS Vocabulary, Naturals

CONSTANTS Calm,         \* "CALM", the mood a session starts in
          MoodOn,       \* whether wrap() was given a mood
          EpochLength   \* config.epoch_length

ASSUME MoodAssumption ==
  /\ Calm \in Moods
  /\ MoodOn \in BOOLEAN
  /\ EpochLength \in Nat \ {0}

VARIABLES mood,         \* state
          moodTick      \* tick

moodVars == <<mood, moodTick>>

MoodTypeOK == mood \in Moods /\ moodTick \in Nat

MoodInit == mood = Calm /\ moodTick = 0

\* advance(): the clock always moves, the mood only at the end of an epoch.
MoodAdvance(next) ==
  /\ moodTick' = moodTick + 1
  /\ mood' = next
  /\ IF (moodTick + 1) % EpochLength = 0 THEN next \in Moods ELSE next = mood

=============================================================================
