SPECIFICATION Spec
CONSTANTS
  Payloads <- MCPayloads
  Answers <- MCAnswers
  EnvFiles <- MCEnvFiles
  Environ <- MCEnviron
  Logged = TRUE
INVARIANTS TypeOK RepetitionResumes RecordCoversNames OutcomeIsDeserved ProviderEnvironment
