------------------------------- MODULE CoreState -------------------------------
(***************************************************************************)
(* The visible state of the assistant core (state.py): one value shared by *)
(* the voice manager, the command engine, the planner and the tool         *)
(* executor, and the table of the transitions StateMachine.transition      *)
(* accepts.  A rejected transition raises ValueError in its caller, so a   *)
(* model that uses this table must say what the caller does then.          *)
(***************************************************************************)

VoiceStates == {"AWAKE", "LISTENING", "TRANSCRIBING", "SPEAKING"}

CoreStates ==
  VoiceStates \cup {"DORMANT", "THINKING", "RETRIEVING_MEMORY", "USING_TOOL",
                    "WAITING_FOR_CONFIRMATION", "OFFLINE", "ERROR"}

AllowedTransitions ==
  [ DORMANT      |-> {"AWAKE", "LISTENING", "THINKING", "USING_TOOL",
                      "WAITING_FOR_CONFIRMATION", "SPEAKING", "OFFLINE", "ERROR"},
    AWAKE        |-> {"LISTENING", "THINKING", "DORMANT", "ERROR"},
    LISTENING    |-> {"TRANSCRIBING", "DORMANT", "ERROR"},
    TRANSCRIBING |-> {"THINKING", "DORMANT", "ERROR"},
    THINKING     |-> {"RETRIEVING_MEMORY", "USING_TOOL", "WAITING_FOR_CONFIRMATION",
                      "SPEAKING", "DORMANT", "OFFLINE", "ERROR"},
    RETRIEVING_MEMORY        |-> {"THINKING", "USING_TOOL", "DORMANT", "ERROR"},
    USING_TOOL               |-> {"THINKING", "WAITING_FOR_CONFIRMATION", "SPEAKING",
                                  "DORMANT", "ERROR"},
    WAITING_FOR_CONFIRMATION |-> {"USING_TOOL", "THINKING", "DORMANT", "ERROR"},
    SPEAKING                 |-> {"DORMANT", "LISTENING", "ERROR"},
    OFFLINE                  |-> {"DORMANT", "THINKING", "ERROR"},
    ERROR                    |-> {"DORMANT", "OFFLINE"} ]

\* A transition to the current state only rewrites the detail text.
CanMove(from, to) == from = to \/ to \in AllowedTransitions[from]

\* The states in which request_tool admits a request of any caller.
RunnableStates == {"DORMANT", "THINKING", "RETRIEVING_MEMORY", "WAITING_FOR_CONFIRMATION"}
================================================================================
