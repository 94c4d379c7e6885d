SPECIFICATION Spec
CONSTANTS
  c1 = c1
  c2 = c2
  openai = openai
  custom = custom
  None = None
  Callers = {c1, c2}
  Names = {"fast", "main"}
  Spellings = {"openai", "OPENAI", "ACME"}
  Factories = {"OPENAI"}
  Models = {openai, custom}
  Upper <- ToUpper
  NameOf <- ProviderNames
  Creds <- Credentials
  Presets <- SomePresets
SYMMETRY Alike
INVARIANTS OneInstance OwnCredentials ResolvesInOrder
