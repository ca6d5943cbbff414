SPECIFICATION ReaperSpec
CONSTANT IdleMinutes = 2
PROPERTY LeftBoxIsReaped
