-------------------------------- MODULE MCVoice --------------------------------
(* Instances of VoiceManager for TLC. *)
EXTENDS VoiceManager

CONSTANTS l1, l2, w1, w2, c1, f1, f2, f3, f4, s1, s2, r1, e1, e2, x1, x2, y1, y2, p1, p2

Load(tasks, heard, incidents) ==
  [tasks |-> tasks, heard |-> heard, incidents |-> incidents]

\* Requests to listen and wake words against the transcription of a capture, typed
\* requests, stops and changes of the privacy mode.
CaptureLoads ==
  { Load({l1, w1, c1, x1}, {"request", "empty"}, {}),
    Load({l1, l2, e1, c1}, {"empty"}, {"microphone"}),
    Load({l1, c1, y1, e1}, {"request", "stop everything"}, {}),
    Load({l1, p2, w1}, {"request", "stop everything"}, {"ambient", "microphone"}),
    Load({w1, w2, e1}, {"stop phrase", "stop everything", "close"}, {}),
    Load({w1, w2, c1, y1}, {"request", "empty"}, {"focus"}),
    Load({l1, w1, x1}, {"empty"}, {"focus"}) }

\* Speeches and reminders that are cut short by wake words, requests, stops and
\* changes of the privacy mode, and the captures that follow them.
SpeechLoads ==
  { Load({s1, w1, e1, y1}, {"stop phrase"}, {}),
    Load({w1, s1, p1, p2}, {"empty"}, {"ambient"}),
    Load({r1, s1, x1}, {"empty"}, {"synthesis"}),
    Load({w1, x1, x2, s1}, {"empty"}, {}) }

MCWorkloads == CaptureLoads \cup SpeechLoads

\* A stop of everything while one speech is under way and another waits for its turn.
QueueWorkloads == { Load({s1, s2, e1}, {}, {}) }
================================================================================
