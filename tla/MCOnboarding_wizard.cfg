SPECIFICATION FairSpec
CONSTANTS
  tab1 = tab1  member = member  placeholder = placeholder  acme = acme  founder = founder
  Tabs = {tab1}
  Others = {member}
  Owners = {tab1}
  Names = {placeholder, acme}
  Placeholder = placeholder
  Personas = {founder}
  None = None
  MaxSamples = 1
  MaxFaults = 1
INVARIANTS TypeOK CompletedHasPersona
PROPERTIES StepsKeepToTheirColumns WizardFinishes
