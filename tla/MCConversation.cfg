SPECIFICATION TalkSpec
CONSTANTS
  Zero = Zero
  prompt = prompt
  Keys = {"num_ctx", "seed"}
  MaxTurns = 3
  MaxSystem = 1
  MaxFaults = 1
  Outputs <- Answerable
  Presets <- PresetsToChoose
INVARIANTS WholeConversation ResultsFindTheirCalls InstructionsReach
PROPERTY EveryTurnIsAnswered
CHECK_DEADLOCK FALSE
