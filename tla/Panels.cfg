CONSTANTS
    video = video
    audio = audio
    own = own
    usual = usual
    Nil = Nil
    Sources = {video, audio}
    Audios = {audio}
    Offered = {"openai"}
    Confs <- Servers
    MaxMade = 2
    MaxSends = 2
    MaxGestures = 5
    Null = Null
    Keys = {ka}
    OwnModels = {"mine"}
    MaxCalls = 3
    MaxEdits = 6
    NoValue = NoValue
    Texts = {"first", "second"}
    Ais = {ai}
    Pages <- Screens
    MaxTurns = 3
    MaxCards = 1
    MaxTalk = 8
SPECIFICATION Spec
SYMMETRY ServerSymmetry
INVARIANTS SpendsAreAgreed PanelsAreHonest KeysPanelIsHonest AssistantOnlyProposes
CHECK_DEADLOCK FALSE
